---------------------------- MODULE Spec2Model ----------------------------
(***************************************************************************)
(* Model of the command execution gatekeeper of openclaw:                  *)
(*   - handleSystemRunInvoke (src/src/agents/tool-policy.ts, 262-615),     *)
(*     one invocation, one action per block of the handler;                *)
(*   - the command normalizer (system-run-command) and the approval        *)
(*     binding (node-invoke-system-run-approval), whose tests are in the   *)
(*     repository; their bodies are modelled from the specification.       *)
(* Strings are sequences of one-character strings, so that quoting,        *)
(* joining and basename are computed, not assumed.                         *)
(***************************************************************************)
EXTENDS Integers, Sequences, FiniteSets, TLC

(***************************************************************************)
(* Optional values: None is the empty sequence, Some(x) is <<x>>.          *)
(***************************************************************************)
None == << >>
Some(x) == <<x>>
IsSome(o) == Len(o) = 1
Get(o) == o[1]

(***************************************************************************)
(* Bounds of the model.                                                    *)
(***************************************************************************)
\* most arguments drawn after the program and its flags, for the normalizer
MaxArgs == 2

(***************************************************************************)
(* Strings                                                                 *)
(***************************************************************************)
SP == " "
DQ == "\""
BS == "\\"
\* the backquote character (it cannot be written in a string literal)
BQ == "backquote"

S_cmdexe == <<"c","m","d",".","e","x","e">>
S_cmd == <<"c","m","d">>
S_CMD == <<"C","M","D">>
S_winCmd == <<"C",":",BS,"c","m","d",".","e","x","e">>
S_binsh == <<"/","b","i","n","/","s","h">>
S_sh == <<"s","h">>
S_bash == <<"b","a","s","h">>
S_dash == <<"d","a","s","h">>
S_zsh == <<"z","s","h">>
S_dashc == <<"-","c">>
S_dashlc == <<"-","l","c">>
S_slashc == <<"/","c">>
S_slashC == <<"/","C">>
S_slashk == <<"/","k">>
S_slashd == <<"/","d">>
S_slashs == <<"/","s">>
S_echo == <<"e","c","h","o">>
S_hi == <<"h","i">>
S_echohi == <<"e","c","h","o",SP,"h","i">>
S_hithere == <<"h","i",SP,"t","h","e","r","e">>
S_smuggle == <<"S","A","F","E","&","&","w","h","o","a","m","i">>
S_whoami == <<"w","h","o","a","m","i">>
S_SAFE == <<"S","A","F","E">>
S_uname == <<"u","n","a","m","e">>
S_dasha == <<"-","a">>
S_nosuch == <<"n","o","p","e">>
S_bindir == <<"/","b","i","n">>
S_echoecho == <<"e", "c", "h", "o", "&", "&", "e", "c", "h", "o">>

UpperChars == <<"A","B","C","D","E","F","G","H","I","J","K","L","M",
                "N","O","P","Q","R","S","T","U","V","W","X","Y","Z">>
LowerChars == <<"a","b","c","d","e","f","g","h","i","j","k","l","m",
                "n","o","p","q","r","s","t","u","v","w","x","y","z">>

\* String.prototype.toLowerCase, one character
LowerChar(c) ==
  IF \E i \in 1..26 : UpperChars[i] = c
  THEN LowerChars[CHOOSE i \in 1..26 : UpperChars[i] = c]
  ELSE c

ToLower(s) == [i \in 1..Len(s) |-> LowerChar(s[i])]

\* Array.prototype.join(" ")
RECURSIVE JoinSp(_)
JoinSp(ss) ==
  IF Len(ss) = 0 THEN << >>
  ELSE IF Len(ss) = 1 THEN ss[1]
  ELSE ss[1] \o <<SP>> \o JoinSp(Tail(ss))

\* the last path component: what follows the last "/" or "\"
Basename(s) ==
  LET seps == {i \in 1..Len(s) : s[i] \in {"/", BS}}
      last == IF seps = {} THEN 0 ELSE CHOOSE i \in seps : \A j \in seps : j <= i
  IN SubSeq(s, last + 1, Len(s))


(***************************************************************************)
(* Argv quoter (formatExecCommand)                                         *)
(***************************************************************************)
\* characters that force a token into double quotes
QuoteChars ==
  {SP, "\t", DQ, "'", BS, "$", BQ, "&", "|", ";", "<", ">", "(", ")",
   "*", "?", "[", "]", "{", "}", "#", "~", "!"}

\* escape embedded double quotes and backslashes by a backslash
RECURSIVE EscapeToken(_)
EscapeToken(t) ==
  IF Len(t) = 0 THEN << >>
  ELSE (IF t[1] \in {DQ, BS} THEN <<BS, t[1]>> ELSE <<t[1]>>)
       \o EscapeToken(Tail(t))

NeedsQuoting(t) == \E i \in 1..Len(t) : t[i] \in QuoteChars

QuoteToken(t) ==
  IF NeedsQuoting(t) THEN <<DQ>> \o EscapeToken(t) \o <<DQ>> ELSE t

formatExecCommand(argv) == JoinSp([i \in 1..Len(argv) |-> QuoteToken(argv[i])])

(***************************************************************************)
(* Shell wrappers (extractShellCommandFromArgv, isCmdExeInvocation)        *)
(***************************************************************************)
PosixShells == {S_sh, S_bash, S_dash, S_zsh}
PosixCommandFlags == {S_dashc, S_dashlc}
CmdNames == {S_cmdexe, S_cmd}
CmdCommandFlags == {S_slashc, S_slashk}

IsPosixShellWrapper(argv) ==
  /\ Len(argv) >= 3
  /\ Basename(argv[1]) \in PosixShells
  /\ argv[2] \in PosixCommandFlags

isCmdExeInvocation(argv) ==
  /\ Len(argv) >= 1
  /\ ToLower(Basename(argv[1])) \in CmdNames

\* indexes of the arguments that are /c or /k
CmdFlagIndexes(argv) ==
  {i \in 2..Len(argv) : ToLower(argv[i]) \in CmdCommandFlags}

FirstCmdFlag(argv) ==
  CHOOSE i \in CmdFlagIndexes(argv) : \A j \in CmdFlagIndexes(argv) : i <= j

\* the pre-fix behaviour: only the token right after /c
extractShellCommandFirstTokenOnly(argv) ==
  IF IsPosixShellWrapper(argv) THEN Some(argv[3])
  ELSE IF /\ isCmdExeInvocation(argv)
          /\ CmdFlagIndexes(argv) # {}
          /\ Len(argv) > FirstCmdFlag(argv)
       THEN Some(argv[FirstCmdFlag(argv) + 1])
       ELSE None

extractShellCommandFromArgv(argv) ==
  IF IsPosixShellWrapper(argv) THEN Some(argv[3])
  ELSE IF /\ isCmdExeInvocation(argv)
          /\ CmdFlagIndexes(argv) # {}
          /\ Len(argv) > FirstCmdFlag(argv)
       THEN Some(JoinSp(SubSeq(argv, FirstCmdFlag(argv) + 1, Len(argv))))
       ELSE None

(***************************************************************************)
(* Command normalizer (validateSystemRunCommandConsistency,                *)
(* resolveSystemRunCommand).  rawCommand is an optional string.            *)
(***************************************************************************)
Failure(message, code) ==
  [ok |-> FALSE, message |-> message, code |-> code,
   argv |-> << >>, rawCommand |-> None, shellCommand |-> None,
   cmdText |-> << >>]

\* Normalized with the command text taken from rawCommand when there is one
NormalizedRawText(argv, rawCommand, shellCommand) ==
  [ok |-> TRUE, message |-> "", code |-> "",
   argv |-> argv, rawCommand |-> rawCommand, shellCommand |-> shellCommand,
   cmdText |-> IF IsSome(rawCommand) THEN Get(rawCommand)
               ELSE IF IsSome(shellCommand) THEN Get(shellCommand)
               ELSE formatExecCommand(argv)]

Normalized(argv, rawCommand, shellCommand) ==
  [ok |-> TRUE, message |-> "", code |-> "",
   argv |-> argv, rawCommand |-> rawCommand, shellCommand |-> shellCommand,
   cmdText |-> IF IsSome(shellCommand) THEN Get(shellCommand)
               ELSE formatExecCommand(argv)]

validateDirectFormOnly(argv, rawCommand) ==
  IF \/ ~IsSome(rawCommand)
     \/ Get(rawCommand) = formatExecCommand(argv)
  THEN Normalized(argv, rawCommand, extractShellCommandFromArgv(argv))
  ELSE Failure("INVALID_REQUEST: rawCommand does not match command",
               "RAW_COMMAND_MISMATCH")

validateSystemRunCommandConsistency(argv, rawCommand) ==
  LET shellCommand == extractShellCommandFromArgv(argv)
  IN IF \/ ~IsSome(rawCommand)
        \/ Get(rawCommand) = formatExecCommand(argv)
        \/ (IsSome(shellCommand) /\ Get(rawCommand) = Get(shellCommand))
     THEN Normalized(argv, rawCommand, shellCommand)
     ELSE Failure("INVALID_REQUEST: rawCommand does not match command",
                  "RAW_COMMAND_MISMATCH")

\* command is the request's argv (the empty sequence when it is missing)
resolveSystemRunCommand(command, rawCommand) ==
  IF Len(command) = 0
  THEN IF IsSome(rawCommand)
       THEN Failure("rawCommand requires params.command", "MISSING_COMMAND")
       ELSE Normalized(<< >>, None, None)
  ELSE validateSystemRunCommandConsistency(command, rawCommand)

(***************************************************************************)
(* Shell parser (parseShell): segments and operators of a shell command.   *)
(***************************************************************************)
Whitespace == {SP, "\t"}
\* characters a backslash escapes inside double quotes
DoubleQuoteEscapable == {DQ, BS, "$", BQ}

ScanStart ==
  [q |-> "none", tok |-> << >>, inTok |-> FALSE, seg |-> << >>,
   segs |-> << >>, ops |-> << >>, ok |-> TRUE]

EndToken(st) ==
  IF st.inTok
  THEN [st EXCEPT !.seg = Append(@, st.tok), !.tok = << >>, !.inTok = FALSE]
  ELSE st

EndSegment(st, op) ==
  LET t == EndToken(st)
  IN [t EXCEPT !.segs = IF t.seg = << >> THEN @ ELSE Append(@, t.seg),
               !.seg = << >>,
               !.ops = Append(@, op),
               !.ok = @ /\ t.seg # << >>]

AddChar(st, c) == [st EXCEPT !.tok = Append(@, c), !.inTok = TRUE]

Fatal(st) == [st EXCEPT !.ok = FALSE]

At(s, i) == IF i <= Len(s) THEN s[i] ELSE ""

RECURSIVE ScanShell(_, _, _)
ScanShell(s, i, st) ==
  IF i > Len(s)
  THEN LET t == EndToken(st)
       IN [t EXCEPT !.segs = IF t.seg = << >> THEN @ ELSE Append(@, t.seg),
                    !.seg = << >>,
                    !.ok = @ /\ st.q = "none"
                             /\ (t.seg # << >> \/ (t.ops # << >>
                                   /\ t.ops[Len(t.ops)] \in {"semicolon", "background"}
                                   /\ t.segs # << >>))]
  ELSE
  LET c == s[i]
      n == At(s, i + 1)
  IN CASE st.q = "single" ->
            IF c = "'" THEN ScanShell(s, i + 1, [st EXCEPT !.q = "none"])
            ELSE ScanShell(s, i + 1, AddChar(st, c))
       [] st.q = "double" ->
            IF c = DQ THEN ScanShell(s, i + 1, [st EXCEPT !.q = "none"])
            ELSE IF c = BS /\ n \in DoubleQuoteEscapable
                 THEN ScanShell(s, i + 2, AddChar(st, n))
            ELSE IF c = BQ \/ (c = "$" /\ n \in {"(", "{"})
                 THEN ScanShell(s, i + 1, Fatal(AddChar(st, c)))
            ELSE ScanShell(s, i + 1, AddChar(st, c))
       [] OTHER ->
            IF c = BS /\ i < Len(s) THEN ScanShell(s, i + 2, AddChar(st, n))
            ELSE IF c = "'"
                 THEN ScanShell(s, i + 1, [st EXCEPT !.q = "single", !.inTok = TRUE])
            ELSE IF c = DQ
                 THEN ScanShell(s, i + 1, [st EXCEPT !.q = "double", !.inTok = TRUE])
            ELSE IF c \in Whitespace THEN ScanShell(s, i + 1, EndToken(st))
            ELSE IF c = BQ \/ (c \in {"$", "<", ">"} /\ n = "(") \/ (c = "$" /\ n = "{")
                 THEN ScanShell(s, i + 1, Fatal(AddChar(st, c)))
            ELSE IF c = "&" /\ n = "&" THEN ScanShell(s, i + 2, EndSegment(st, "and"))
            ELSE IF c = "|" /\ n = "|" THEN ScanShell(s, i + 2, EndSegment(st, "or"))
            ELSE IF c = "|" THEN ScanShell(s, i + 1, EndSegment(st, "pipe"))
            ELSE IF c = ";" THEN ScanShell(s, i + 1, EndSegment(st, "semicolon"))
            ELSE IF c = "&" THEN ScanShell(s, i + 1, EndSegment(st, "background"))
            ELSE IF c \in {"(", ")"}
                 THEN ScanShell(s, i + 1,
                        [EndToken(st) EXCEPT !.ops = Append(@, "subshell")])
            ELSE ScanShell(s, i + 1, AddChar(st, c))

\* [ok, segments (each an argv), operators]
parseShell(s) ==
  LET st == ScanShell(s, 1, ScanStart)
  IN [ok |-> st.ok /\ st.segs # << >>, segments |-> st.segs, operators |-> st.ops]

(***************************************************************************)
(* Command resolver and allowlist evaluation (exec-approvals).             *)
(* The file system is fixed: the programs of OnPath exist in /bin.         *)
(***************************************************************************)
OnPath == {S_echo, S_whoami, S_uname, S_cmdexe, S_cmd, S_sh}

HasPathSeparator(token) == \E i \in 1..Len(token) : token[i] \in {"/", BS}

Dirname(path) == SubSeq(path, 1, Len(path) - Len(Basename(path)) - 1)

\* the resolved program path, None when the token resolves to nothing
resolveCommand(token) ==
  IF Len(token) = 0 THEN None
  ELSE IF HasPathSeparator(token) THEN Some(token)
  ELSE IF token \in OnPath THEN Some(S_bindir \o <<"/">> \o token)
  ELSE None

Segment(argv) ==
  [argv |-> argv,
   resolution |-> IF Len(argv) = 0 THEN None ELSE resolveCommand(argv[1])]

analyzeArgvCommand(argv) ==
  IF Len(argv) = 0 \/ Len(argv[1]) = 0
  THEN [ok |-> FALSE, segments |-> << >>, operators |-> << >>]
  ELSE [ok |-> TRUE, segments |-> <<Segment(argv)>>, operators |-> << >>]

analyzeShellCommand(command) ==
  LET parsed == parseShell(command)
  IN [ok |-> parsed.ok,
      segments |-> [i \in 1..Len(parsed.segments) |-> Segment(parsed.segments[i])],
      operators |-> parsed.operators]

ForbiddenOperators == {"background", "subshell"}
OperatorChars == {"&", "|", ";", "<", ">", "(", ")", "$", BQ}

HasOperatorChars(argv) ==
  \E i \in 1..Len(argv) : \E j \in 1..Len(argv[i]) : argv[i][j] \in OperatorChars

\* a segment a safe bin or a skill bin satisfies without an entry
AutoSatisfied(segment, env) ==
  /\ IsSome(segment.resolution)
  /\ ~HasOperatorChars(Tail(segment.argv))
  /\ \/ Dirname(Get(segment.resolution)) \in env.trustedSafeBinDirs
     \/ (env.autoAllowSkills /\ segment.argv[1] \in env.skillBins)

SegmentMatches(segment, allowlist) ==
  IF IsSome(segment.resolution) /\ Get(segment.resolution) \in allowlist
  THEN <<Get(segment.resolution)>>
  ELSE << >>

RECURSIVE Flatten(_)
Flatten(ss) == IF Len(ss) = 0 THEN << >> ELSE ss[1] \o Flatten(Tail(ss))

evaluateExecAllowlist(analysis, env) ==
  [allowlistMatches |->
     Flatten([i \in 1..Len(analysis.segments) |->
                SegmentMatches(analysis.segments[i], env.allowlist)]),
   allowlistSatisfied |->
     /\ analysis.ok
     /\ Len(analysis.segments) > 0
     /\ \A i \in 1..Len(analysis.operators) :
          analysis.operators[i] \notin ForbiddenOperators
     /\ \A i \in 1..Len(analysis.segments) :
          \/ SegmentMatches(analysis.segments[i], env.allowlist) # << >>
          \/ AutoSatisfied(analysis.segments[i], env)]

evaluateShellAllowlist(command, env) ==
  LET analysis == analyzeShellCommand(command)
      eval == evaluateExecAllowlist(analysis, env)
  IN [analysisOk |-> analysis.ok,
      allowlistMatches |-> eval.allowlistMatches,
      allowlistSatisfied |-> eval.allowlistSatisfied,
      segments |-> analysis.segments]

requiresExecApproval(ask, security, analysisOk, allowlistSatisfied) ==
  \/ ask = "always"
  \/ /\ ask = "untrusted"
     /\ \/ (security = "allowlist" /\ (~analysisOk \/ ~allowlistSatisfied))
        \/ (security = "off" /\ ~analysisOk)

\* the allowlist store: a set of [pattern, useCount, lastCmdText]
Entry(pattern) == [pattern |-> pattern, useCount |-> 0, lastCmdText |-> << >>]

addAllowlistEntry(file, pattern) ==
  IF \E e \in file : e.pattern = pattern THEN file
  ELSE file \cup {Entry(pattern)}

recordAllowlistUse(file, pattern, text) ==
  {IF e.pattern = pattern
   THEN [e EXCEPT !.useCount = @ + 1, !.lastCmdText = text]
   ELSE e : e \in file}

(***************************************************************************)
(* State                                                                   *)
(***************************************************************************)
VARIABLES
  pc,                 \* position of the invocation in handleSystemRunInvoke
  params,             \* opts.params: command, rawCommand, approved, ...
  platform,           \* process.platform
  security,           \* approvals.agent.security
  ask,                \* approvals.agent.ask
  env,                \* approvals.allowlist, safe bin dirs, skill bins
  command,            \* the result of resolveSystemRunCommand
  analysisOk,
  allowlistMatches,   \* patterns of the matched entries, in segment order
  allowlistSatisfied,
  segments,
  allowlistFile,      \* approvals.file: the allowlist store
  execHost,           \* execHostEnforced, execHostFallbackAllowed, response
  result,             \* the RunResult of runCommand (None before it returns)
  events,             \* exec.* events sent, in order
  replies,            \* results sent with sendInvokeResult, in order
  pending,            \* the reply the next sendInvokeResult sends
  runCalls,           \* the argv of each runCommand call
  hostCalls,          \* the requests given to runViaMacAppExecHost
  trace,              \* every external effect, in order
  fwd,                \* gateway side: a forwarding request and its outcome
  prior,              \* how an earlier invocation of the same request ended
  finishedEvents      \* the result each sendExecFinishedEvent call carries

reqVars == <<params, platform, security, ask, env>>
evalVars == <<analysisOk, allowlistMatches, allowlistSatisfied, segments>>
outVars == <<events, replies, pending, runCalls, hostCalls, trace>>
\* invocations of handleSystemRunInvoke that overlap on one sessionKey
VARIABLES
  invPc,              \* where each invocation stands: the await it is parked at
  started,            \* the invocations in the order they were called
  completions,        \* the invocations in the order they completed
  sink                \* the exec.* events in the order the sink was called

concVars == <<invPc, started, completions, sink>>

\* the caller gave the invocation up while the handler was parked at an await
VARIABLE cancelled

\* a call of expandToolGroups
VARIABLES
  toolList,           \* the list given to expandToolGroups
  expanded,           \* what it returned (None before the call)
  reexpanded          \* what it returned when given its own result

toolVars == <<toolList, expanded, reexpanded>>

\* the I18nManager of the UI (translate.ts)
VARIABLES
  locale,             \* this.locale
  storage,            \* localStorage["openclaw.i18n.locale"] (None: not set)
  translations,       \* the locales this.translations has an entry for
  subscribers,        \* this.subscribers, in insertion order
  notified,           \* the subscriber calls made by notify(), in order
  calls               \* the setLocale calls: requested locale and progress

i18nVars == <<locale, storage, translations, subscribers, notified, calls>>

auxVars == <<concVars, cancelled, toolVars, i18nVars>>

NumInvocations == 2
Invocations == 1..NumInvocations

ConcIdle ==
  /\ invPc = [i \in Invocations |-> "idle"]
  /\ started = << >>
  /\ completions = << >>
  /\ sink = << >>

ToolsIdle ==
  /\ toolList = << >>
  /\ expanded = None
  /\ reexpanded = None

NumLocaleCalls == 2
LocaleCalls == 1..NumLocaleCalls

NoCall == [pc |-> "idle", locale |-> "", outcome |-> "none"]

I18nIdle ==
  /\ locale = "en"
  /\ storage = None
  /\ translations = {"en"}
  /\ subscribers = << >>
  /\ notified = << >>
  /\ calls = [c \in LocaleCalls |-> NoCall]

AuxIdle ==
  /\ ConcIdle
  /\ cancelled = FALSE
  /\ ToolsIdle
  /\ I18nIdle

vars == <<pc, reqVars, command, evalVars, allowlistFile, execHost, result,
          outVars, fwd, prior, finishedEvents, auxVars>>

(***************************************************************************)
(* Inputs                                                                  *)
(***************************************************************************)
Platforms == {"darwin", "win32", "linux"}
Securities == {"deny", "allowlist", "off"}
Asks == {"never", "untrusted", "always"}
\* params.approvalDecision: absent, the two valid decisions, another string
ApprovalDecisions == {"null", "allow-once", "allow-always", "deny"}

Commands ==
  { << >>,
    <<S_echo, S_hi>>,
    <<S_nosuch>>,
    <<S_binsh, S_dashlc, S_echohi>>,
    <<S_cmdexe>>,
    <<S_cmdexe, S_slashc, S_echo, S_hi>>,
    <<S_cmdexe, S_slashd, S_slashs, S_slashc, S_echo, S_smuggle>>,
    <<S_binsh, S_dashc, S_cmd>>,
    <<S_binsh, S_dashc, S_echoecho>> }

\* rawCommand: absent, the rendering of argv, the wrapped command, another text
RawCommands(argv) ==
  {None, Some(S_echo)}
  \cup (IF Len(argv) > 0 THEN {Some(formatExecCommand(argv))} ELSE {})
  \cup {extractShellCommandFromArgv(argv)}

BinPath(name) == S_bindir \o <<"/">> \o name

Environments ==
  { [allowlist |-> {}, trustedSafeBinDirs |-> {},
     autoAllowSkills |-> FALSE, skillBins |-> {}],
    [allowlist |-> {BinPath(S_echo), BinPath(S_whoami), BinPath(S_cmd)},
     trustedSafeBinDirs |-> {},
     autoAllowSkills |-> TRUE, skillBins |-> {S_uname}],
    [allowlist |-> {}, trustedSafeBinDirs |-> {S_bindir},
     autoAllowSkills |-> FALSE, skillBins |-> {}] }

\* what the exec host answers: nothing, an error (with or without a reason),
\* or the result of the run it made
HostResponses ==
  { None,
    Some([ok |-> FALSE, reason |-> None]),
    Some([ok |-> FALSE, reason |-> Some("security=deny")]),
    Some([ok |-> FALSE, reason |-> Some("user-denied")]),
    Some([ok |-> TRUE, reason |-> None]) }

\* what runCommand returns: a success, a failure with a non-zero exit code and
\* an error, a timeout without an exit code; stdout and stderr are sequences
\* of chunks of text
RunResults ==
  { [exitCode |-> Some(0), timedOut |-> FALSE, success |-> TRUE,
     stdout |-> <<"out">>, stderr |-> << >>, error |-> None, truncated |-> TRUE],
    [exitCode |-> Some(1), timedOut |-> FALSE, success |-> FALSE,
     stdout |-> <<"out">>, stderr |-> <<"err">>, error |-> Some("failed"),
     truncated |-> TRUE],
    [exitCode |-> None, timedOut |-> TRUE, success |-> FALSE,
     stdout |-> << >>, stderr |-> << >>, error |-> Some("timeout"),
     truncated |-> FALSE],
    [exitCode |-> Some(2), timedOut |-> FALSE, success |-> FALSE,
     stdout |-> << >>, stderr |-> <<" ">>, error |-> None, truncated |-> TRUE],
    [exitCode |-> Some(3), timedOut |-> FALSE, success |-> FALSE,
     stdout |-> <<"out">>, stderr |-> <<"err">>, error |-> None,
     truncated |-> FALSE] }

\* the gateway has nothing to forward
NoFwd ==
  [stage |-> "off",
   rawParams |-> [command |-> << >>, rawCommand |-> None, runId |-> "",
                  approved |-> FALSE, approvalDecision |-> "null"],
   scopes |-> {}, record |-> None, nowMs |-> 0,
   out |-> [ok |-> FALSE, code |-> "", message |-> "", approved |-> FALSE,
            approvalDecision |-> "null"]]

\* no earlier invocation
NoPrior ==
  [kind |-> "none", security |-> "", ask |-> "", events |-> << >>,
   replies |-> << >>, runCalls |-> << >>,
   execHost |-> [enforced |-> FALSE, fallbackAllowed |-> FALSE, response |-> None]]

\* payload: the result of runCommand an ok reply carries (lines 606-613)
Reply(ok, code) == [ok |-> ok, code |-> code, payload |-> None]

\* String.prototype.trim leaves text: some chunk is not white space
HasText(chunks) == \E i \in 1..Len(chunks) : chunks[i] \notin {" ", "\n"}

\* lines 594-601, the suffix put on stderr whenever stderr is not empty
TruncatedUntrimmed(r) ==
  IF ~r.truncated THEN r
  ELSE IF Len(r.stderr) > 0
       THEN [r EXCEPT !.stderr = Append(@, "... (truncated)")]
       ELSE [r EXCEPT !.stdout = Append(@, "... (truncated)")]

\* lines 594-601: the suffix goes to stderr when trimming it leaves text,
\* else to stdout
Truncated(r) ==
  IF ~r.truncated THEN r
  ELSE IF HasText(r.stderr)
       THEN [r EXCEPT !.stderr = Append(@, "... (truncated)")]
       ELSE [r EXCEPT !.stdout = Append(@, "... (truncated)")]

\* lines 604-614
ResultReply(r) ==
  [ok |-> TRUE, code |-> "",
   payload |-> Some([exitCode |-> r.exitCode, timedOut |-> r.timedOut,
                     success |-> r.success, stdout |-> r.stdout,
                     stderr |-> r.stderr, error |-> r.error])]
Event(name, reason) == [name |-> name, reason |-> reason]

(***************************************************************************)
(* handleSystemRunInvoke                                                   *)
(***************************************************************************)
InitInvoke ==
  /\ pc = "start"
  /\ platform \in Platforms
  /\ security \in Securities
  /\ ask \in Asks
  /\ env \in Environments
  /\ \E argv \in Commands, approved \in BOOLEAN, screen \in BOOLEAN,
        decision \in ApprovalDecisions :
       \E raw \in RawCommands(argv) :
         params = [command |-> argv, rawCommand |-> raw, approved |-> approved,
                   approvalDecision |-> decision,
                   needsScreenRecording |-> screen]
  /\ command = Failure("", "")
  /\ analysisOk = FALSE
  /\ allowlistMatches = << >>
  /\ allowlistSatisfied = FALSE
  /\ segments = << >>
  /\ allowlistFile = {Entry(p) : p \in env.allowlist}
  /\ execHost = [enforced |-> FALSE, fallbackAllowed |-> FALSE, response |-> None]
  /\ result = None
  /\ events = << >>
  /\ replies = << >>
  /\ pending = None
  /\ runCalls = << >>
  /\ hostCalls = << >>
  /\ trace = << >>
  /\ fwd = NoFwd
  /\ prior = NoPrior
  /\ finishedEvents = << >>
  /\ AuxIdle

\* the event is sent, then the reply is due
Deny(reason, code) ==
  /\ events' = Append(events, Event("exec.denied", reason))
  /\ trace' = Append(trace, "exec.denied")
  /\ pending' = Some(Reply(FALSE, code))
  /\ pc' = "reply"

\* lines 299-316, with an exec.denied event sent for an invalid request
ResolveCommandWithEvent ==
  /\ pc = "start"
  /\ command' = resolveSystemRunCommand(params.command, params.rawCommand)
  /\ IF ~command'.ok \/ Len(command'.argv) = 0
     THEN /\ Deny("invalid-request", "INVALID_REQUEST")
          /\ UNCHANGED <<replies, runCalls, hostCalls>>
     ELSE /\ pc' = "evaluate"
          /\ UNCHANGED outVars
  /\ UNCHANGED <<reqVars, evalVars, allowlistFile, execHost, result, fwd, prior, finishedEvents, auxVars>>

\* lines 299-316, without the check of an empty argv (lines 310-316)
ResolveCommandNoEmptyCheck ==
  /\ pc = "start"
  /\ command' = resolveSystemRunCommand(params.command, params.rawCommand)
  /\ IF ~command'.ok
     THEN /\ pending' = Some(Reply(FALSE, "INVALID_REQUEST"))
          /\ pc' = "reply"
     ELSE /\ pending' = pending
          /\ pc' = "evaluate"
  /\ UNCHANGED <<reqVars, evalVars, allowlistFile, execHost, result, events,
                 replies, runCalls, hostCalls, trace, fwd, prior, finishedEvents, auxVars>>

\* lines 299-316
ResolveCommand ==
  /\ pc = "start"
  /\ command' = resolveSystemRunCommand(params.command, params.rawCommand)
  /\ IF ~command'.ok \/ Len(command'.argv) = 0
     THEN /\ pending' = Some(Reply(FALSE, "INVALID_REQUEST"))
          /\ pc' = "reply"
     ELSE /\ pending' = pending
          /\ pc' = "evaluate"
  /\ UNCHANGED <<reqVars, evalVars, allowlistFile, execHost, result, events,
                 replies, runCalls, hostCalls, trace, fwd, prior, finishedEvents, auxVars>>

\* if (shellCommand): the empty string is not a shell command
ShellCommandPresent == IsSome(command.shellCommand) /\ Len(Get(command.shellCommand)) > 0

FirstSegmentArgv(segs) == IF Len(segs) > 0 THEN segs[1].argv ELSE << >>

\* lines 381-383, with the outer argv checked whatever was extracted
cmdInvocationOuter(segs) == isCmdExeInvocation(command.argv)

\* lines 381-383
cmdInvocation(segs) ==
  IF ShellCommandPresent
  THEN isCmdExeInvocation(FirstSegmentArgv(segs))
  ELSE isCmdExeInvocation(command.argv)

\* lines 342-387, allowlistSatisfied taken from the evaluation as it is
\* (lines 361-362 and 377-378 without the test of security and analysisOk)
EvaluateAllowlistUngated ==
  /\ pc = "evaluate"
  /\ LET eval ==
           IF ShellCommandPresent
           THEN evaluateShellAllowlist(Get(command.shellCommand), env)
           ELSE LET analysis == analyzeArgvCommand(command.argv)
                    e == evaluateExecAllowlist(analysis, env)
                IN [analysisOk |-> analysis.ok,
                    allowlistMatches |-> e.allowlistMatches,
                    allowlistSatisfied |-> e.allowlistSatisfied,
                    segments |-> analysis.segments]
         cmdRule ==
           security = "allowlist" /\ platform = "win32" /\ cmdInvocation(eval.segments)
     IN /\ analysisOk' = (IF cmdRule THEN FALSE ELSE eval.analysisOk)
        /\ allowlistSatisfied' = (IF cmdRule THEN FALSE ELSE eval.allowlistSatisfied)
        /\ allowlistMatches' = eval.allowlistMatches
        /\ segments' = eval.segments
  /\ pc' = IF platform = "darwin" THEN "exechost" ELSE "security"
  /\ UNCHANGED <<reqVars, command, allowlistFile, execHost, result, outVars, fwd, prior, finishedEvents, auxVars>>

\* lines 318-387
EvaluateAllowlist ==
  /\ pc = "evaluate"
  /\ LET eval ==
           IF ShellCommandPresent
           THEN evaluateShellAllowlist(Get(command.shellCommand), env)
           ELSE LET analysis == analyzeArgvCommand(command.argv)
                    e == evaluateExecAllowlist(analysis, env)
                IN [analysisOk |-> analysis.ok,
                    allowlistMatches |-> e.allowlistMatches,
                    allowlistSatisfied |-> e.allowlistSatisfied,
                    segments |-> analysis.segments]
         satisfied ==
           IF security = "allowlist" /\ eval.analysisOk
           THEN eval.allowlistSatisfied ELSE FALSE
         cmdRule ==
           security = "allowlist" /\ platform = "win32" /\ cmdInvocation(eval.segments)
     IN /\ analysisOk' = (IF cmdRule THEN FALSE ELSE eval.analysisOk)
        /\ allowlistSatisfied' = (IF cmdRule THEN FALSE ELSE satisfied)
        /\ allowlistMatches' = eval.allowlistMatches
        /\ segments' = eval.segments
  /\ pc' = IF platform = "darwin" THEN "exechost" ELSE "security"
  /\ UNCHANGED <<reqVars, command, allowlistFile, execHost, result, outVars, fwd, prior, finishedEvents, auxVars>>

\* lines 391-395 and 485-488
approvalDecision ==
  IF params.approvalDecision \in {"allow-once", "allow-always"}
  THEN params.approvalDecision ELSE "null"

\* line 489
approvedByAsk == approvalDecision # "null" \/ params.approved = TRUE

\* line 398: rawCommand || shellCommand || null
HostRawCommand ==
  IF IsSome(command.rawCommand) /\ Len(Get(command.rawCommand)) > 0
  THEN command.rawCommand
  ELSE IF ShellCommandPresent THEN command.shellCommand ELSE None

\* lines 389-457, line 409 with && in place of ||
RunViaMacAppExecHostBothFlags ==
  /\ pc = "exechost"
  /\ \E response \in HostResponses, enforced \in BOOLEAN, fallback \in BOOLEAN :
       \* the two flags are read only when there is no response (line 409)
       /\ IsSome(response) => (~enforced /\ fallback)
       /\ execHost' = [enforced |-> enforced, fallbackAllowed |-> fallback,
                       response |-> response]
       /\ hostCalls' = Append(hostCalls,
                         [command |-> command.argv, rawCommand |-> HostRawCommand,
                          approvalDecision |-> approvalDecision])
       /\ IF ~IsSome(response)
          THEN IF enforced /\ ~fallback
               THEN /\ events' = Append(events,
                                   Event("exec.denied", "companion-unavailable"))
                    /\ trace' = trace \o <<"execHost", "exec.denied">>
                    /\ pending' = Some(Reply(FALSE, "UNAVAILABLE"))
                    /\ UNCHANGED finishedEvents
                    /\ pc' = "reply"
               ELSE /\ trace' = Append(trace, "execHost")
                    /\ pc' = "security"
                    /\ UNCHANGED <<events, pending, finishedEvents, auxVars>>
          ELSE IF ~Get(response).ok
               THEN /\ events' = Append(events,
                          Event("exec.denied",
                                IF IsSome(Get(response).reason)
                                THEN Get(Get(response).reason)
                                ELSE "approval-required"))
                    /\ trace' = trace \o <<"execHost", "exec.denied">>
                    /\ pending' = Some(Reply(FALSE, "UNAVAILABLE"))
                    /\ UNCHANGED finishedEvents
                    /\ pc' = "reply"
               ELSE /\ events' = Append(events, Event("exec.finished", ""))
                    /\ finishedEvents' = Append(finishedEvents, None)
                    /\ trace' = trace \o <<"execHost", "exec.finished">>
                    /\ pending' = Some(Reply(TRUE, ""))
                    /\ pc' = "reply"
  /\ UNCHANGED <<reqVars, command, evalVars, allowlistFile, result, replies,
                 runCalls, fwd, prior, auxVars>>

\* lines 389-457
RunViaMacAppExecHost ==
  /\ pc = "exechost"
  /\ \E response \in HostResponses, enforced \in BOOLEAN, fallback \in BOOLEAN :
       \* the two flags are read only when there is no response (line 409)
       /\ IsSome(response) => (~enforced /\ fallback)
       /\ execHost' = [enforced |-> enforced, fallbackAllowed |-> fallback,
                       response |-> response]
       /\ hostCalls' = Append(hostCalls,
                         [command |-> command.argv, rawCommand |-> HostRawCommand,
                          approvalDecision |-> approvalDecision])
       /\ IF ~IsSome(response)
          THEN IF enforced \/ ~fallback
               THEN /\ events' = Append(events,
                                   Event("exec.denied", "companion-unavailable"))
                    /\ trace' = trace \o <<"execHost", "exec.denied">>
                    /\ pending' = Some(Reply(FALSE, "UNAVAILABLE"))
                    /\ UNCHANGED finishedEvents
                    /\ pc' = "reply"
               ELSE /\ trace' = Append(trace, "execHost")
                    /\ pc' = "security"
                    /\ UNCHANGED <<events, pending, finishedEvents, auxVars>>
          ELSE IF ~Get(response).ok
               THEN /\ events' = Append(events,
                          Event("exec.denied",
                                IF IsSome(Get(response).reason)
                                THEN Get(Get(response).reason)
                                ELSE "approval-required"))
                    /\ trace' = trace \o <<"execHost", "exec.denied">>
                    /\ pending' = Some(Reply(FALSE, "UNAVAILABLE"))
                    /\ UNCHANGED finishedEvents
                    /\ pc' = "reply"
               ELSE /\ events' = Append(events, Event("exec.finished", ""))
                    /\ finishedEvents' = Append(finishedEvents, None)
                    /\ trace' = trace \o <<"execHost", "exec.finished">>
                    /\ pending' = Some(Reply(TRUE, ""))
                    /\ pc' = "reply"
  /\ UNCHANGED <<reqVars, command, evalVars, allowlistFile, result, replies,
                 runCalls, fwd, prior, auxVars>>

\* lines 459-476, the reply's message sent as the event's reason
CheckSecurityDenyMessageAsReason ==
  /\ pc = "security"
  /\ IF security = "deny"
     THEN /\ Deny("SYSTEM_RUN_DISABLED: security=deny", "UNAVAILABLE")
          /\ UNCHANGED <<replies, runCalls, hostCalls>>
     ELSE /\ pc' = "approval"
          /\ UNCHANGED outVars
  /\ UNCHANGED <<reqVars, command, evalVars, allowlistFile, execHost, result, fwd, prior, finishedEvents, auxVars>>

\* lines 459-476
CheckSecurityDeny ==
  /\ pc = "security"
  /\ IF security = "deny"
     THEN /\ Deny("security=deny", "UNAVAILABLE")
          /\ UNCHANGED <<replies, runCalls, hostCalls>>
     ELSE /\ pc' = "approval"
          /\ UNCHANGED outVars
  /\ UNCHANGED <<reqVars, command, evalVars, allowlistFile, execHost, result, fwd, prior, finishedEvents, auxVars>>

\* line 478
requiresAsk == requiresExecApproval(ask, security, analysisOk, allowlistSatisfied)

\* lines 478-507
CheckApproval ==
  /\ pc = "approval"
  /\ IF requiresAsk /\ ~approvedByAsk
     THEN /\ Deny("approval-required", "UNAVAILABLE")
          /\ UNCHANGED <<replies, runCalls, hostCalls>>
     ELSE /\ pc' = "allowAlways"
          /\ UNCHANGED outVars
  /\ UNCHANGED <<reqVars, command, evalVars, allowlistFile, execHost, result, fwd, prior, finishedEvents, auxVars>>

\* the non-empty resolved paths of the segments, in order
RECURSIVE SegmentPatterns(_)
SegmentPatterns(segs) ==
  IF Len(segs) = 0 THEN << >>
  ELSE (IF IsSome(segs[1].resolution) /\ Len(Get(segs[1].resolution)) > 0
        THEN <<Get(segs[1].resolution)>> ELSE << >>)
       \o SegmentPatterns(Tail(segs))

RECURSIVE AddAll(_, _)
AddAll(file, patterns) ==
  IF Len(patterns) = 0 THEN file
  ELSE AddAll(addAllowlistEntry(file, patterns[1]), Tail(patterns))

\* lines 508-517, without the test of analysisOk (line 509)
AddAllowlistEntriesNoAnalysisCheck ==
  /\ pc = "allowAlways"
  /\ IF approvalDecision = "allow-always" /\ security = "allowlist"
     THEN /\ allowlistFile' = AddAll(allowlistFile, SegmentPatterns(segments))
          /\ trace' = trace \o [i \in 1..Len(SegmentPatterns(segments)) |->
                                  "addAllowlistEntry"]
     ELSE UNCHANGED <<allowlistFile, trace>>
  /\ pc' = "allowlist"
  /\ UNCHANGED <<reqVars, command, evalVars, execHost, result, events, replies,
                 pending, runCalls, hostCalls, fwd, prior, finishedEvents, auxVars>>

\* lines 508-517
AddAllowlistEntries ==
  /\ pc = "allowAlways"
  /\ IF approvalDecision = "allow-always" /\ security = "allowlist" /\ analysisOk
     THEN /\ allowlistFile' = AddAll(allowlistFile, SegmentPatterns(segments))
          /\ trace' = trace \o [i \in 1..Len(SegmentPatterns(segments)) |->
                                  "addAllowlistEntry"]
     ELSE UNCHANGED <<allowlistFile, trace>>
  /\ pc' = "allowlist"
  /\ UNCHANGED <<reqVars, command, evalVars, execHost, result, events, replies,
                 pending, runCalls, hostCalls, fwd, prior, finishedEvents, auxVars>>

\* lines 519-536, the miss reported whatever the security mode
CheckAllowlistMissAnySecurity ==
  /\ pc = "allowlist"
  /\ IF (~analysisOk \/ ~allowlistSatisfied) /\ ~approvedByAsk
     THEN /\ Deny("allowlist-miss", "UNAVAILABLE")
          /\ UNCHANGED <<replies, runCalls, hostCalls>>
     ELSE /\ pc' = "recordUse"
          /\ UNCHANGED outVars
  /\ UNCHANGED <<reqVars, command, evalVars, allowlistFile, execHost, result, fwd, prior, finishedEvents, auxVars>>

\* lines 519-536
CheckAllowlistMiss ==
  /\ pc = "allowlist"
  /\ IF security = "allowlist" /\ (~analysisOk \/ ~allowlistSatisfied) /\ ~approvedByAsk
     THEN /\ Deny("allowlist-miss", "UNAVAILABLE")
          /\ UNCHANGED <<replies, runCalls, hostCalls>>
     ELSE /\ pc' = "recordUse"
          /\ UNCHANGED outVars
  /\ UNCHANGED <<reqVars, command, evalVars, allowlistFile, execHost, result, fwd, prior, finishedEvents, auxVars>>

\* the patterns of the matches, each once, in order (the seen set)
RECURSIVE Dedup(_, _)
Dedup(ps, seen) ==
  IF Len(ps) = 0 THEN << >>
  ELSE IF Len(ps[1]) = 0 \/ ps[1] \in seen THEN Dedup(Tail(ps), seen)
  ELSE <<ps[1]>> \o Dedup(Tail(ps), seen \cup {ps[1]})

RECURSIVE RecordAll(_, _, _)
RecordAll(file, patterns, text) ==
  IF Len(patterns) = 0 THEN file
  ELSE RecordAll(recordAllowlistUse(file, patterns[1], text), Tail(patterns), text)

\* lines 538-553, without the seen set: one call for every match
RecordAllowlistUseEveryMatch ==
  /\ pc = "recordUse"
  /\ allowlistFile' = RecordAll(allowlistFile, allowlistMatches, command.cmdText)
  /\ trace' = trace \o [i \in 1..Len(allowlistMatches) |-> "recordAllowlistUse"]
  /\ pc' = "screen"
  /\ UNCHANGED <<reqVars, command, evalVars, execHost, result, events, replies,
                 pending, runCalls, hostCalls, fwd, prior, finishedEvents, auxVars>>

\* lines 538-553
RecordAllowlistUse ==
  /\ pc = "recordUse"
  /\ LET used == Dedup(allowlistMatches, {})
     IN /\ allowlistFile' = RecordAll(allowlistFile, used, command.cmdText)
        /\ trace' = trace \o [i \in 1..Len(used) |-> "recordAllowlistUse"]
  /\ pc' = "screen"
  /\ UNCHANGED <<reqVars, command, evalVars, execHost, result, events, replies,
                 pending, runCalls, hostCalls, fwd, prior, finishedEvents, auxVars>>

\* lines 555-572, without the return after the denial
CheckScreenRecordingNoReturn ==
  /\ pc = "screen"
  /\ IF params.needsScreenRecording = TRUE
     THEN /\ events' = Append(events, Event("exec.denied", "permission:screenRecording"))
          /\ trace' = Append(trace, "exec.denied")
          /\ UNCHANGED <<replies, pending, runCalls, hostCalls>>
     ELSE UNCHANGED outVars
  /\ pc' = "run"
  /\ UNCHANGED <<reqVars, command, evalVars, allowlistFile, execHost, result, fwd, prior, finishedEvents, auxVars>>

\* lines 555-572
CheckScreenRecording ==
  /\ pc = "screen"
  /\ IF params.needsScreenRecording = TRUE
     THEN /\ Deny("permission:screenRecording", "UNAVAILABLE")
          /\ UNCHANGED <<replies, runCalls, hostCalls>>
     ELSE /\ pc' = "run"
          /\ UNCHANGED outVars
  /\ UNCHANGED <<reqVars, command, evalVars, allowlistFile, execHost, result, fwd, prior, finishedEvents, auxVars>>

\* lines 575-584: when the single segment replaces the request argv
Unwraps ==
  /\ security = "allowlist"
  /\ platform = "win32"
  /\ ~approvedByAsk
  /\ ShellCommandPresent
  /\ analysisOk
  /\ allowlistSatisfied
  /\ Len(segments) = 1
  /\ Len(segments[1].argv) > 0

\* lines 574-586, unwrapping whenever a shell command has one segment
execArgvAlwaysUnwrapped ==
  IF ShellCommandPresent /\ Len(segments) = 1 /\ Len(segments[1].argv) > 0
  THEN segments[1].argv ELSE command.argv

\* lines 574-586
execArgv == IF Unwraps THEN segments[1].argv ELSE command.argv

\* lines 588-593: the call of runCommand and its result
RunCommand ==
  /\ pc = "run"
  /\ runCalls' = Append(runCalls, execArgv)
  /\ trace' = Append(trace, "runCommand")
  /\ \E r \in RunResults : result' = Some(r)
  /\ pc' = "finished"
  /\ UNCHANGED <<reqVars, command, evalVars, allowlistFile, execHost, events,
                 replies, pending, hostCalls, fwd, prior, finishedEvents, auxVars>>

\* lines 594-614, an unsuccessful result answered as a denial
SendExecFinishedEventFailureDenied ==
  /\ pc = "finished"
  /\ result' = Some(Truncated(Get(result)))
  /\ IF Get(result).success
     THEN /\ events' = Append(events, Event("exec.finished", ""))
          /\ finishedEvents' = Append(finishedEvents, Some(Get(result')))
          /\ trace' = Append(trace, "exec.finished")
          /\ pending' = Some(ResultReply(Get(result')))
          /\ pc' = "reply"
     ELSE /\ Deny("exec-failed", "UNAVAILABLE")
          /\ UNCHANGED finishedEvents
  /\ UNCHANGED <<reqVars, command, evalVars, allowlistFile, execHost,
                 replies, runCalls, hostCalls, fwd, prior, auxVars>>

\* lines 594-614 with the reply of 604 sent before the event of 602
SendExecFinishedEventAfterReply ==
  /\ pc = "finished"
  /\ result' = Some(Truncated(Get(result)))
  /\ replies' = Append(replies, ResultReply(Get(result')))
  /\ events' = Append(events, Event("exec.finished", ""))
  /\ finishedEvents' = Append(finishedEvents, Some(Get(result')))
  /\ trace' = trace \o <<"reply", "exec.finished">>
  /\ pending' = None
  /\ pc' = "done"
  /\ UNCHANGED <<reqVars, command, evalVars, allowlistFile, execHost,
                 runCalls, hostCalls, fwd, prior, auxVars>>

\* lines 594-602, and the reply of lines 604-614 made ready
SendExecFinishedEvent ==
  /\ pc = "finished"
  /\ result' = Some(Truncated(Get(result)))
  /\ events' = Append(events, Event("exec.finished", ""))
  /\ finishedEvents' = Append(finishedEvents, Some(Get(result')))
  /\ trace' = Append(trace, "exec.finished")
  /\ pending' = Some(ResultReply(Get(result')))
  /\ pc' = "reply"
  /\ UNCHANGED <<reqVars, command, evalVars, allowlistFile, execHost,
                 replies, runCalls, hostCalls, fwd, prior, auxVars>>

\* sendInvokeResult, then the handler returns
SendInvokeResult ==
  /\ pc = "reply"
  /\ replies' = Append(replies, Get(pending))
  /\ trace' = Append(trace, "reply")
  /\ pending' = None
  /\ pc' = "done"
  /\ UNCHANGED <<reqVars, command, evalVars, allowlistFile, execHost, result,
                 events, runCalls, hostCalls, fwd, prior, finishedEvents, auxVars>>

Init == InitInvoke

Next ==
  \/ ResolveCommand
  \/ EvaluateAllowlist
  \/ RunViaMacAppExecHost
  \/ CheckSecurityDeny
  \/ CheckApproval
  \/ AddAllowlistEntries
  \/ CheckAllowlistMiss
  \/ RecordAllowlistUse
  \/ CheckScreenRecording
  \/ RunCommand
  \/ SendExecFinishedEvent
  \/ SendInvokeResult

Spec == Init /\ [][Next]_vars

(***************************************************************************)
(* The same request invoked a second time under another policy: security   *)
(* off in place of allowlist, or ask always in place of never.  prior      *)
(* keeps how the first invocation ended.                                   *)
(***************************************************************************)
InitMono ==
  /\ InitInvoke
  /\ params.rawCommand = None
  /\ (security = "allowlist" \/ ask = "never")

\* the state of a new invocation of the same request, the first one recorded
InvokeAgain(kind) ==
  /\ pc = "done"
  /\ prior.kind = "none"
  /\ prior' = [kind |-> kind, security |-> security, ask |-> ask,
               events |-> events, replies |-> replies, runCalls |-> runCalls,
               execHost |-> execHost]
  /\ pc' = "start"
  /\ command' = Failure("", "")
  /\ analysisOk' = FALSE
  /\ allowlistMatches' = << >>
  /\ allowlistSatisfied' = FALSE
  /\ segments' = << >>
  /\ allowlistFile' = {Entry(p) : p \in env.allowlist}
  /\ execHost' = [enforced |-> FALSE, fallbackAllowed |-> FALSE, response |-> None]
  /\ result' = None
  /\ events' = << >>
  /\ replies' = << >>
  /\ pending' = None
  /\ runCalls' = << >>
  /\ hostCalls' = << >>
  /\ trace' = << >>
  /\ finishedEvents' = << >>
  /\ UNCHANGED <<params, platform, env, fwd, auxVars>>

InvokeAgainSecurityOff ==
  /\ security = "allowlist"
  /\ security' = "off"
  /\ ask' = ask
  /\ InvokeAgain("security")

InvokeAgainAskAlways ==
  /\ ask = "never"
  /\ ask' = "always"
  /\ security' = security
  /\ InvokeAgain("ask")

NextMono == Next \/ InvokeAgainSecurityOff \/ InvokeAgainAskAlways

SpecMono == InitMono /\ [][NextMono]_vars

(***************************************************************************)
(* The collaborators may reject: an awaited call that rejects throws in    *)
(* handleSystemRunInvoke, which has no try/catch, so the promise it        *)
(* returned rejects (pc = "thrown") and nothing after the call is done.    *)
(***************************************************************************)
InitFaults ==
  /\ InitInvoke
  /\ params.rawCommand = None

Throw ==
  /\ pc' = "thrown"
  /\ trace' = Append(trace, "reject")

\* line 407: await opts.runViaMacAppExecHost(...) rejects
RunViaMacAppExecHostRejects ==
  /\ pc = "exechost"
  /\ hostCalls' = Append(hostCalls,
                    [command |-> command.argv, rawCommand |-> HostRawCommand,
                     approvalDecision |-> approvalDecision])
  /\ Throw
  /\ UNCHANGED <<reqVars, command, evalVars, allowlistFile, execHost, result,
                 events, replies, pending, runCalls, fwd, prior, finishedEvents, auxVars>>

\* lines 460, 491, 520, 556: await opts.sendNodeEvent(..., "exec.denied", ...)
\* rejects where the local pipeline denies
SendNodeEventRejects ==
  /\ \/ (pc = "security" /\ security = "deny")
     \/ (pc = "approval" /\ requiresAsk /\ ~approvedByAsk)
     \/ (/\ pc = "allowlist"
         /\ security = "allowlist"
         /\ (~analysisOk \/ ~allowlistSatisfied)
         /\ ~approvedByAsk)
     \/ (pc = "screen" /\ params.needsScreenRecording = TRUE)
  /\ Throw
  /\ UNCHANGED <<reqVars, command, evalVars, allowlistFile, execHost, result,
                 events, replies, pending, runCalls, hostCalls, fwd, prior, finishedEvents, auxVars>>

\* lines 588-593: await opts.runCommand(...) rejects
RunCommandRejects ==
  /\ pc = "run"
  /\ runCalls' = Append(runCalls, execArgv)
  /\ Throw
  /\ UNCHANGED <<reqVars, command, evalVars, allowlistFile, execHost, result,
                 events, replies, pending, hostCalls, fwd, prior, finishedEvents, auxVars>>

\* line 602: await opts.sendExecFinishedEvent(...) rejects
SendExecFinishedEventRejects ==
  /\ pc = "finished"
  /\ Throw
  /\ UNCHANGED <<reqVars, command, evalVars, allowlistFile, execHost, result,
                 events, replies, pending, runCalls, hostCalls, fwd, prior, finishedEvents, auxVars>>

NextFaults ==
  \/ Next
  \/ RunViaMacAppExecHostRejects
  \/ SendNodeEventRejects
  \/ RunCommandRejects
  \/ SendExecFinishedEventRejects

SpecFaults == InitFaults /\ [][NextFaults]_vars

(***************************************************************************)
(* The normalizer on its own: resolveSystemRunCommand applied to every     *)
(* argv made of a head (program and flags) and up to MaxArgs arguments.    *)
(***************************************************************************)
ArgvHeads ==
  { << >>,
    <<S_echo>>,
    <<S_uname>>,
    <<S_binsh>>,
    <<S_binsh, S_dashlc>>,
    <<S_bash, S_dashc>>,
    <<S_cmdexe, S_slashd>>,
    <<S_cmdexe, S_slashc>>,
    <<S_cmdexe, S_slashd, S_slashs, S_slashc>>,
    <<S_CMD, S_slashC>>,
    <<S_winCmd, S_slashk>> }

ArgTokens == {S_echo, S_hi, S_echohi, S_smuggle, S_slashc, <<"a", DQ, BS>>}

ArgSeqs(n) == UNION {[1..k -> ArgTokens] : k \in 0..n}

NormalizerArgvs == {h \o t : h \in ArgvHeads, t \in ArgSeqs(MaxArgs)}

\* the arguments after the first /c or /k of a cmd.exe argv
CmdTail(argv) ==
  IF isCmdExeInvocation(argv) /\ CmdFlagIndexes(argv) # {}
  THEN SubSeq(argv, FirstCmdFlag(argv) + 1, Len(argv))
  ELSE << >>

\* the texts a request may claim to be: the renderings of argv (quoted and
\* not), the wrapped command, every shorter run of the wrapped tokens, another
NormalizerRawCommands(argv) ==
  {None, Some(S_echo), Some(JoinSp(argv))}
  \cup (IF Len(argv) > 0 THEN {Some(formatExecCommand(argv))} ELSE {})
  \cup {extractShellCommandFromArgv(argv)}
  \cup {Some(JoinSp(SubSeq(CmdTail(argv), 1, k))) : k \in 1..(Len(CmdTail(argv)) - 1)}

\* no system.run invocation under way
SystemRunIdle ==
  /\ platform = "linux"
  /\ security = "deny"
  /\ ask = "never"
  /\ env = [allowlist |-> {}, trustedSafeBinDirs |-> {},
            autoAllowSkills |-> FALSE, skillBins |-> {}]
  /\ command = Failure("", "")
  /\ analysisOk = FALSE
  /\ allowlistMatches = << >>
  /\ allowlistSatisfied = FALSE
  /\ segments = << >>
  /\ allowlistFile = {}
  /\ execHost = [enforced |-> FALSE, fallbackAllowed |-> FALSE, response |-> None]
  /\ result = None
  /\ events = << >>
  /\ replies = << >>
  /\ pending = None
  /\ runCalls = << >>
  /\ hostCalls = << >>
  /\ trace = << >>
  /\ prior = NoPrior
  /\ finishedEvents = << >>

InitIdle ==
  /\ SystemRunIdle
  /\ AuxIdle

InitCmd ==
  /\ InitIdle
  /\ pc = "normalize"
  /\ \E argv \in NormalizerArgvs :
       \E raw \in NormalizerRawCommands(argv) :
         params = [command |-> argv, rawCommand |-> raw, approved |-> FALSE,
                   approvalDecision |-> "null", needsScreenRecording |-> FALSE]
  /\ fwd = NoFwd

\* resolveSystemRunCommand({command, rawCommand})
NormalizeCommand ==
  /\ pc = "normalize"
  /\ command' = resolveSystemRunCommand(params.command, params.rawCommand)
  /\ pc' = "normalized"
  /\ UNCHANGED <<reqVars, evalVars, allowlistFile, execHost, result, outVars, fwd, prior, finishedEvents, auxVars>>

NextCmd == NormalizeCommand

SpecCmd == InitCmd /\ [][NextCmd]_vars

(***************************************************************************)
(* Approval binding at the gateway (sanitizeSystemRunParamsForForwarding). *)
(***************************************************************************)
RequiredScope == "operator.approvals"
ApprovedDecisions == {"allow-once", "allow-always"}

SanitizeFailure(code, message) ==
  [ok |-> FALSE, code |-> code, message |-> message, approved |-> FALSE,
   approvalDecision |-> "null"]

\* the binding of the command text left out
sanitizeWithoutTextBinding(rawParams, scopes, record, nowMs) ==
  LET cmd == resolveSystemRunCommand(rawParams.command, rawParams.rawCommand)
  IN IF ~cmd.ok THEN SanitizeFailure(cmd.code, cmd.message)
     ELSE IF \/ ~IsSome(record)
             \/ Get(record).id # rawParams.runId
             \/ Get(record).decision \notin ApprovedDecisions
             \/ Get(record).expiresAtMs < nowMs
             \/ RequiredScope \notin scopes
          THEN SanitizeFailure("", "approval required")
     ELSE [ok |-> TRUE, code |-> "", message |-> "", approved |-> TRUE,
           approvalDecision |-> Get(record).decision]

\* rawParams: command, rawCommand, runId, approved, approvalDecision;
\* record: the approval manager's snapshot of rawParams.runId, if any
sanitizeSystemRunParamsForForwarding(rawParams, scopes, record, nowMs) ==
  LET cmd == resolveSystemRunCommand(rawParams.command, rawParams.rawCommand)
  IN IF ~cmd.ok THEN SanitizeFailure(cmd.code, cmd.message)
     ELSE IF \/ ~IsSome(record)
             \/ Get(record).id # rawParams.runId
             \/ Get(record).decision \notin ApprovedDecisions
             \/ Get(record).expiresAtMs < nowMs
             \/ RequiredScope \notin scopes
          THEN SanitizeFailure("", "approval required")
     ELSE IF cmd.cmdText # Get(record).command
          THEN SanitizeFailure("", "approval request mismatch")
     ELSE [ok |-> TRUE, code |-> "", message |-> "", approved |-> TRUE,
           approvalDecision |-> Get(record).decision]

RecordDecisions == {"allow-once", "allow-always", "deny", "pending"}
RecordCommands == {S_echo, S_echohi, JoinSp(<<S_echo, S_smuggle>>)}
RunIds == {"approval-1", "approval-2"}

ApprovalRecords ==
  {None} \cup
  {Some([id |-> "approval-1", command |-> c, decision |-> d, expiresAtMs |-> e]) :
     c \in RecordCommands, d \in RecordDecisions, e \in {0, 2}}

InitFwd ==
  /\ InitIdle
  /\ pc = "gateway"
  /\ params = [command |-> << >>, rawCommand |-> None, approved |-> FALSE,
               approvalDecision |-> "null", needsScreenRecording |-> FALSE]
  /\ \E argv \in Commands, runId \in RunIds, record \in ApprovalRecords,
        scopes \in {{"operator.write"}, {"operator.write", RequiredScope}},
        asked \in {"null", "allow-once"} :
       \E raw \in RawCommands(argv) :
         fwd = [NoFwd EXCEPT
                  !.stage = "received",
                  !.rawParams = [command |-> argv, rawCommand |-> raw,
                                 runId |-> runId, approved |-> asked # "null",
                                 approvalDecision |-> asked],
                  !.scopes = scopes, !.record = record, !.nowMs = 1]

SanitizeForForwarding ==
  /\ fwd.stage = "received"
  /\ fwd' = [fwd EXCEPT
               !.stage = "sanitized",
               !.out = sanitizeSystemRunParamsForForwarding(
                         fwd.rawParams, fwd.scopes, fwd.record, fwd.nowMs)]
  /\ UNCHANGED <<pc, reqVars, command, evalVars, allowlistFile, execHost, result,
                 outVars, prior, finishedEvents, auxVars>>

NextFwd == SanitizeForForwarding

SpecFwd == InitFwd /\ [][NextFwd]_vars

(***************************************************************************)
(* Claims about the normalizer and the approval binding                    *)
(***************************************************************************)
\* text is the tokens joined by single spaces, said without JoinSp
RECURSIVE IsJoinOf(_, _)
IsJoinOf(text, tokens) ==
  IF Len(tokens) = 0 THEN text = << >>
  ELSE IF Len(tokens) = 1 THEN text = tokens[1]
  ELSE LET n == Len(tokens[1])
       IN /\ Len(text) > n
          /\ SubSeq(text, 1, n) = tokens[1]
          /\ text[n + 1] = SP
          /\ IsJoinOf(SubSeq(text, n + 2, Len(text)), Tail(tokens))

\* C8: the forwarding check answers ok=true only if the normalized command
\* text of the incoming params equals the command text of the approval record
\* whose id is the incoming runId; an ok answer carries approved=true and the
\* record's decision; an inconsistent command/rawCommand pair is answered
\* ok=false with RAW_COMMAND_MISMATCH, also when the record's text is rawCommand.
C8_ApprovalBinding ==
  fwd.stage = "sanitized" =>
    LET cmd == resolveSystemRunCommand(fwd.rawParams.command, fwd.rawParams.rawCommand)
    IN /\ fwd.out.ok =>
            /\ IsSome(fwd.record)
            /\ Get(fwd.record).id = fwd.rawParams.runId
            /\ cmd.ok
            /\ cmd.cmdText = Get(fwd.record).command
            /\ fwd.out.approved = TRUE
            /\ fwd.out.approvalDecision = Get(fwd.record).decision
       /\ (Len(fwd.rawParams.command) > 0 /\ ~cmd.ok) =>
            (~fwd.out.ok /\ fwd.out.code = "RAW_COMMAND_MISMATCH")

\* an approved "echo SAFE&&whoami" forwarded for the cmd.exe argv that carries it
C8_Witness_Accepted ==
  /\ fwd.stage = "sanitized"
  /\ fwd.out.ok
  /\ fwd.rawParams.command = <<S_cmdexe, S_slashd, S_slashs, S_slashc, S_echo, S_smuggle>>
  /\ fwd.out.approvalDecision = "allow-always"

\* C9: for a non-empty argv, normalization succeeds exactly when rawCommand is
\* absent, or is the quoted rendering of argv, or argv is a shell wrapper and
\* rawCommand is the wrapped command; every other case is RAW_COMMAND_MISMATCH.
C9_NormalizationConsistency ==
  (pc = "normalized" /\ Len(params.command) > 0) =>
    LET argv == params.command
        raw == params.rawCommand
        shell == extractShellCommandFromArgv(argv)
    IN /\ command.ok <=>
            \/ ~IsSome(raw)
            \/ Get(raw) = formatExecCommand(argv)
            \/ (IsSome(shell) /\ Get(raw) = Get(shell))
       /\ ~command.ok => command.code = "RAW_COMMAND_MISMATCH"

\* a shell wrapper accepted for its wrapped command, which is not its rendering
C9_Witness_WrapperAccepted ==
  /\ pc = "normalized"
  /\ command.ok
  /\ IsSome(params.rawCommand)
  /\ IsSome(command.shellCommand)
  /\ Get(params.rawCommand) = Get(command.shellCommand)
  /\ Get(params.rawCommand) # formatExecCommand(params.command)

\* C10: for a cmd.exe argv with /c or /k and tokens after it, the extracted
\* command is all of those tokens joined by single spaces, and a rawCommand
\* that is only a shorter run of them is rejected with RAW_COMMAND_MISMATCH.
C10_TrailingArgsIncluded ==
  (pc = "normalized" /\ Len(CmdTail(params.command)) > 0) =>
    LET tail == CmdTail(params.command)
        shell == extractShellCommandFromArgv(params.command)
    IN /\ IsSome(shell)
       /\ IsJoinOf(Get(shell), tail)
       /\ command.ok => (IsSome(command.shellCommand)
                         /\ IsJoinOf(command.cmdText, tail))
       /\ (\E k \in 1..(Len(tail) - 1) :
             params.rawCommand = Some(JoinSp(SubSeq(tail, 1, k))))
          => (~command.ok /\ command.code = "RAW_COMMAND_MISMATCH")

\* rawCommand "echo" for [cmd.exe, /d, /s, /c, echo, SAFE&&whoami] is rejected
C10_Witness_SmugglingRejected ==
  /\ pc = "normalized"
  /\ params.command = <<S_cmdexe, S_slashd, S_slashs, S_slashc, S_echo, S_smuggle>>
  /\ params.rawCommand = Some(S_echo)
  /\ ~command.ok
  /\ command.code = "RAW_COMMAND_MISMATCH"

\* C12: for every successfully normalized command, shellCommand is non-null
\* exactly when argv is a shell-wrapper invocation (a POSIX shell with -c or
\* -lc and a command, or cmd.exe with /c or /k and tokens after it), the
\* returned argv is the request argv, and cmdText is shellCommand when that is
\* non-null and the quoted rendering of argv otherwise.
C12_NormalizedTriple ==
  (pc = "normalized" /\ command.ok) =>
    LET argv == params.command
        posix == /\ Len(argv) >= 3
                 /\ Basename(argv[1]) \in {S_sh, S_bash, S_dash, S_zsh}
                 /\ argv[2] \in {S_dashc, S_dashlc}
        cmd == /\ Len(argv) >= 1
               /\ ToLower(Basename(argv[1])) \in {S_cmdexe, S_cmd}
               /\ \E i \in 2..(Len(argv) - 1) : ToLower(argv[i]) \in {S_slashc, S_slashk}
    IN /\ IsSome(command.shellCommand) <=> (posix \/ cmd)
       /\ command.argv = argv
       /\ command.cmdText = IF IsSome(command.shellCommand)
                            THEN Get(command.shellCommand)
                            ELSE formatExecCommand(argv)

\* [cmd.exe, /d, /s, /c, echo, SAFE&&whoami] with rawCommand "echo SAFE&&whoami"
C12_Witness_CmdTextIsShellCommand ==
  /\ pc = "normalized"
  /\ command.ok
  /\ command.argv = <<S_cmdexe, S_slashd, S_slashs, S_slashc, S_echo, S_smuggle>>
  /\ params.rawCommand = Some(JoinSp(<<S_echo, S_smuggle>>))
  /\ command.shellCommand = Some(JoinSp(<<S_echo, S_smuggle>>))
  /\ command.cmdText = JoinSp(<<S_echo, S_smuggle>>)

(***************************************************************************)
(* Claims about handleSystemRunInvoke                                      *)
(***************************************************************************)
\* the request passed normalization: lines 303-316 did not return
Accepted == command.ok /\ Len(command.argv) > 0

Done == pc = "done"

InitialAllowlistFile == {Entry(p) : p \in env.allowlist}

\* the exec host ran the command
HostExecuted == IsSome(execHost.response) /\ Get(execHost.response).ok

\* C1: an invocation whose request passed normalization emits exactly one of
\* exec.denied and exec.finished: never two events, and one when it returns.
C1_ExactlyOneCompletion ==
  /\ Len(events) <= 1
  /\ \A i \in 1..Len(events) : events[i].name \in {"exec.denied", "exec.finished"}
  /\ (Done /\ Accepted) => Len(events) = 1

\* macOS, no answer from the exec host, fallback to the local path, which runs
C1_Witness_FallbackFinished ==
  /\ Done
  /\ platform = "darwin"
  /\ hostCalls # << >>
  /\ runCalls # << >>
  /\ events = <<Event("exec.finished", "")>>

\* C2: a reply INVALID_REQUEST means no exec.* event was sent, no executor or
\* exec host was called and the allowlist store is as it was; it is the reply
\* of exactly the requests that fail normalization or have an empty argv.
C2_NoEventOnInvalid ==
  /\ (\/ (IsSome(pending) /\ Get(pending).code = "INVALID_REQUEST")
      \/ \E i \in 1..Len(replies) : replies[i].code = "INVALID_REQUEST")
     => /\ events = << >>
        /\ runCalls = << >>
        /\ hostCalls = << >>
        /\ allowlistFile = InitialAllowlistFile
        /\ ~Accepted
  /\ (Done /\ ~Accepted) => replies = <<Reply(FALSE, "INVALID_REQUEST")>>

\* a rawCommand that does not match its argv, answered INVALID_REQUEST
C2_Witness_MismatchReplied ==
  /\ Done
  /\ command.code = "RAW_COMMAND_MISMATCH"
  /\ replies = <<Reply(FALSE, "INVALID_REQUEST")>>

\* C3: with security=deny every accepted invocation, on every platform, ends
\* with exec.denied reason security=deny and an UNAVAILABLE reply, and the
\* command is run neither by runCommand nor by the exec host.
C3_SecurityDenyOnEveryPlatform ==
  (Accepted /\ security = "deny") =>
    /\ runCalls = << >>
    /\ ~HostExecuted
    /\ Done => /\ events = <<Event("exec.denied", "security=deny")>>
               /\ replies = <<Reply(FALSE, "UNAVAILABLE")>>

\* C4: under security=allowlist a request that is not pre-approved reaches
\* runCommand only if analysisOk and allowlistSatisfied; otherwise it ends in
\* exec.denied with reason allowlist-miss or approval-required and UNAVAILABLE.
C4_AllowlistGate ==
  (Accepted /\ security = "allowlist" /\ ~approvedByAsk) =>
    /\ runCalls # << >> => (analysisOk /\ allowlistSatisfied)
    /\ (Done /\ ~(analysisOk /\ allowlistSatisfied)) =>
         /\ Len(events) = 1
         /\ events[1].name = "exec.denied"
         /\ events[1].reason \in {"allowlist-miss", "approval-required"}
         /\ replies = <<Reply(FALSE, "UNAVAILABLE")>>

\* C5: when approval is required (security other than deny) and the request is
\* not pre-approved, the invocation ends with exec.denied reason
\* approval-required and an UNAVAILABLE reply, and runCommand is never called.
C5_ApprovalRequired ==
  (/\ Accepted
   /\ pc \notin {"start", "evaluate"}
   /\ security # "deny"
   /\ requiresExecApproval(ask, security, analysisOk, allowlistSatisfied)
   /\ ~approvedByAsk) =>
    /\ runCalls = << >>
    /\ Done => /\ events = <<Event("exec.denied", "approval-required")>>
               /\ replies = <<Reply(FALSE, "UNAVAILABLE")>>

\* the request is not pre-approved and was never dispatched, and ended in a
\* denial for a missing approval or a missing allowlist entry
NeverDispatched ==
  /\ runCalls = << >>
  /\ Done => /\ Len(events) = 1
             /\ events[1].name = "exec.denied"
             /\ events[1].reason \in {"approval-required", "allowlist-miss"}
             /\ replies = <<Reply(FALSE, "UNAVAILABLE")>>

C7_ExecArgvSelection ==
  /\ Len(runCalls) <= 1
  /\ command.ok => command.argv = params.command
  /\ \A i \in 1..Len(runCalls) :
       runCalls[i] =
         IF /\ platform = "win32"
            /\ security = "allowlist"
            /\ ~approvedByAsk
            /\ ShellCommandPresent
            /\ analysisOk
            /\ allowlistSatisfied
            /\ Len(segments) = 1
         THEN segments[1].argv
         ELSE params.command

\* cmd.exe /c echo hi unwrapped: runCommand is given [echo, hi]
C7_Witness_Unwrapped ==
  /\ runCalls = <<<<S_echo, S_hi>>>>
  /\ params.command = <<S_cmdexe, S_slashc, S_echo, S_hi>>

\* C11: a request with a rawCommand and no argv fails normalization with code
\* MISSING_COMMAND; a request that fails normalization or normalizes to an empty
\* argv is answered INVALID_REQUEST, and nothing after normalization is done:
\* no analysis, no exec host, no executor, no event, no allowlist change.
C11_MissingCommandStops ==
  /\ (pc # "start" /\ Len(params.command) = 0 /\ IsSome(params.rawCommand))
       => (~command.ok /\ command.code = "MISSING_COMMAND")
  /\ (pc # "start" /\ (~command.ok \/ Len(params.command) = 0)) =>
       /\ pc \in {"reply", "done"}
       /\ segments = << >> /\ allowlistMatches = << >>
       /\ ~analysisOk /\ ~allowlistSatisfied
       /\ runCalls = << >> /\ hostCalls = << >> /\ events = << >>
       /\ allowlistFile = InitialAllowlistFile
       /\ \A i \in 1..Len(trace) : trace[i] = "reply"
       /\ Done => replies = <<Reply(FALSE, "INVALID_REQUEST")>>

\* rawCommand "echo" without a command: MISSING_COMMAND, answered INVALID_REQUEST
C11_Witness_MissingCommand ==
  /\ Done
  /\ params.command = << >>
  /\ params.rawCommand = Some(S_echo)
  /\ command.code = "MISSING_COMMAND"
  /\ replies = <<Reply(FALSE, "INVALID_REQUEST")>>

\* C13: with the request, the allowlist, the ask setting and the exec host's
\* behaviour the same, a request dispatched to runCommand under
\* security=allowlist is dispatched under security=off; and with everything
\* but ask the same, a request that ends in approval-required under ask=never
\* ends in approval-required under ask=always.
C13_DecisionMonotonicity ==
  (Done /\ prior.kind # "none" /\ execHost = prior.execHost) =>
    /\ (prior.kind = "security" /\ prior.runCalls # << >>) => runCalls # << >>
    /\ (/\ prior.kind = "ask"
        /\ prior.events = <<Event("exec.denied", "approval-required")>>)
         => events = <<Event("exec.denied", "approval-required")>>

\* cmd.exe /c echo hi on Windows: dispatched unwrapped under allowlist, and
\* dispatched as it is under off
C13_Witness_DispatchedUnderBoth ==
  /\ Done
  /\ prior.kind = "security"
  /\ platform = "win32"
  /\ prior.runCalls = <<<<S_echo, S_hi>>>>
  /\ runCalls = <<params.command>>
  /\ security = "off"

\* C14: addAllowlistEntry and recordAllowlistUse are performed only in
\* invocations that go on to runCommand and exec.finished; an invocation that
\* ends in exec.denied (permission:screenRecording included) or in
\* INVALID_REQUEST leaves the allowlist store as it was.
C14_SideEffectsOnlyOnAllow ==
  (Done /\ \/ \E i \in 1..Len(events) : events[i].name = "exec.denied"
           \/ replies = <<Reply(FALSE, "INVALID_REQUEST")>>) =>
    /\ allowlistFile = InitialAllowlistFile
    /\ \A i \in 1..Len(trace) :
         trace[i] \notin {"addAllowlistEntry", "recordAllowlistUse"}

\* the invocation is decided by the local pipeline: not macOS, or macOS with no
\* answer from the exec host and fallback allowed
LocalPath ==
  \/ platform # "darwin"
  \/ /\ hostCalls # << >>
     /\ ~IsSome(execHost.response)
     /\ ~execHost.enforced
     /\ execHost.fallbackAllowed

\* how many times the effect named e was performed
Count(e) == Cardinality({i \in 1..Len(trace) : trace[i] = e})

PatternsOf(file) == {e.pattern : e \in file}

\* C15: on the local path allowlist entries are inserted if and only if
\* approvalDecision=allow-always, security=allowlist and analysisOk; then one
\* insertion is made for each segment with a non-empty resolved path, with that
\* path as pattern, and none for a segment without a resolved path.
C15_AllowAlwaysInsertions ==
  LET cond == /\ params.approvalDecision = "allow-always"
              /\ security = "allowlist"
              /\ analysisOk
      resolved == {i \in 1..Len(segments) :
                     /\ IsSome(segments[i].resolution)
                     /\ Len(Get(segments[i].resolution)) > 0}
      paths == {Get(segments[i].resolution) : i \in resolved}
  IN /\ Count("addAllowlistEntry") > 0 => (cond /\ LocalPath)
     /\ (Done /\ Accepted /\ LocalPath) =>
          /\ Count("addAllowlistEntry") = IF cond THEN Cardinality(resolved) ELSE 0
          /\ PatternsOf(allowlistFile) =
               PatternsOf(InitialAllowlistFile) \cup (IF cond THEN paths ELSE {})

\* "echo SAFE&&whoami" approved allow-always: /bin/echo and /bin/whoami inserted
C15_Witness_TwoSegmentsInserted ==
  /\ Done
  /\ params.approvalDecision = "allow-always"
  /\ security = "allowlist"
  /\ InitialAllowlistFile = {}
  /\ Len(segments) = 2
  /\ Count("addAllowlistEntry") = 2
  /\ PatternsOf(allowlistFile) = {BinPath(S_echo), BinPath(S_whoami)}

\* C16: in every allowed invocation (one that ends in exec.finished and an ok
\* reply) recordAllowlistUse is called once for each element of
\* allowlistMatches, with the invocation's cmdText.
C16_RecordUsePerMatch ==
  (Done /\ events = <<Event("exec.finished", "")>>) =>
    /\ Count("recordAllowlistUse") = Len(allowlistMatches)
    /\ \A i \in 1..Len(allowlistMatches) :
         \E e \in allowlistFile :
           /\ e.pattern = allowlistMatches[i]
           /\ e.useCount = 1
           /\ e.lastCmdText = command.cmdText

\* C16 as amended: in every invocation that reaches runCommand,
\* recordAllowlistUse is called once for each distinct non-empty pattern among
\* allowlistMatches (an entry matched more than once is recorded once), with the
\* invocation's cmdText; an invocation run by the macOS exec host is not
\* recorded by the handler.
C16_RecordUsePerPattern ==
  LET patterns == {allowlistMatches[i] : i \in 1..Len(allowlistMatches)}
                    \ {<< >>}
  IN /\ (Done /\ runCalls # << >>) =>
          /\ Count("recordAllowlistUse") = Cardinality(patterns)
          /\ \A p \in patterns :
               \E e \in allowlistFile :
                 /\ e.pattern = p
                 /\ e.useCount = 1
                 /\ e.lastCmdText = command.cmdText
     /\ HostExecuted => Count("recordAllowlistUse") = 0

\* sh -c "echo&&echo": /bin/echo matched twice, its use recorded once
C16_Witness_MatchedTwiceRecordedOnce ==
  /\ Done
  /\ runCalls # << >>
  /\ allowlistMatches = <<BinPath(S_echo), BinPath(S_echo)>>
  /\ Count("recordAllowlistUse") = 1

\* C17: a request with needsScreenRecording=true under a security other than
\* deny, decided by the local pipeline, ends in exec.denied with reason
\* permission:screenRecording and an UNAVAILABLE reply whatever ask, analysisOk,
\* allowlistSatisfied and the approval inputs are, and runCommand is not called.
C17_ScreenRecordingDecidedFirst ==
  (/\ Accepted
   /\ params.needsScreenRecording = TRUE
   /\ security # "deny"
   /\ LocalPath) =>
    /\ runCalls = << >>
    /\ Done => /\ events = <<Event("exec.denied", "permission:screenRecording")>>
               /\ replies = <<Reply(FALSE, "UNAVAILABLE")>>

\* C18: on macOS, when the exec host gives no response: if execHostEnforced or
\* not execHostFallbackAllowed, the invocation sends exec.denied with reason
\* companion-unavailable, replies UNAVAILABLE and never calls runCommand; only
\* with execHostEnforced false and execHostFallbackAllowed true does it go on
\* with the local pipeline (which then decides, e.g. security=deny).
C18_CompanionUnavailable ==
  LET unavailable == <<Event("exec.denied", "companion-unavailable")>>
      noResponse == /\ platform = "darwin"
                    /\ hostCalls # << >>
                    /\ ~IsSome(execHost.response)
      mayFallBack == ~execHost.enforced /\ execHost.fallbackAllowed
  IN /\ (noResponse /\ ~mayFallBack) =>
          /\ events = unavailable
          /\ runCalls = << >>
          /\ pc \in {"reply", "done"}
          /\ pending = Some(Reply(FALSE, "UNAVAILABLE"))
               \/ replies = <<Reply(FALSE, "UNAVAILABLE")>>
     /\ (noResponse /\ mayFallBack) =>
          /\ events # unavailable
          /\ pc \notin {"start", "evaluate", "exechost"}
          /\ (Done /\ security = "deny") =>
               events = <<Event("exec.denied", "security=deny")>>
          /\ (Done /\ security = "off" /\ approvedByAsk
                   /\ params.needsScreenRecording = FALSE) =>
               runCalls # << >>
     /\ events = unavailable => (noResponse /\ ~mayFallBack)

\* no response and execHostEnforced: denied although fallback is allowed
C18_Witness_EnforcedNoFallback ==
  /\ Done
  /\ platform = "darwin"
  /\ ~IsSome(execHost.response)
  /\ execHost.enforced
  /\ execHost.fallbackAllowed
  /\ events = <<Event("exec.denied", "companion-unavailable")>>
  /\ replies = <<Reply(FALSE, "UNAVAILABLE")>>

\* C19: the invocation never fails across its boundary, also when runCommand,
\* the exec host or the event sink rejects: it returns having sent exactly one
\* reply, which is ok=true, INVALID_REQUEST, or UNAVAILABLE with an exec.denied
\* event.
C19_NeverThrows ==
  /\ pc # "thrown"
  /\ Done =>
       /\ Len(replies) = 1
       /\ \/ replies[1].ok
          \/ replies[1].code = "INVALID_REQUEST"
          \/ /\ replies[1].code = "UNAVAILABLE"
             /\ Len(events) = 1
             /\ events[1].name = "exec.denied"

\* C20: whenever runCommand was called and returned a result, the reply is
\* ok=true with a payload that carries the result's exitCode, timedOut, success
\* and error as they are, also for a non-zero exit code, a timeout or
\* success=false; the only event is exec.finished.
C20_ExecutorFailureForwarded ==
  (Done /\ runCalls # << >> /\ IsSome(result)) =>
    /\ events = <<Event("exec.finished", "")>>
    /\ Len(replies) = 1
    /\ replies[1].ok
    /\ IsSome(replies[1].payload)
    /\ LET payload == Get(replies[1].payload)
           r == Get(result)
       IN /\ payload.exitCode = r.exitCode
          /\ payload.timedOut = r.timedOut
          /\ payload.success = r.success
          /\ payload.error = r.error
          /\ r \in {Truncated(x) : x \in RunResults}

\* exit code 1, success=false and an error, answered ok=true
C20_Witness_FailureAnsweredOk ==
  /\ Done
  /\ runCalls # << >>
  /\ replies[1].ok
  /\ Get(replies[1].payload).exitCode = Some(1)
  /\ Get(replies[1].payload).success = FALSE
  /\ Get(replies[1].payload).error = Some("failed")
  /\ Get(replies[1].payload).stderr = <<"err", "... (truncated)">>

\* the replies sent and the one about to be sent
AllReplies ==
  {replies[i] : i \in 1..Len(replies)} \cup {pending[i] : i \in 1..Len(pending)}

\* C21 as stated: every exec.denied event has a reason among security=deny,
\* allowlist-miss, approval-required, permission:screenRecording,
\* companion-unavailable and cancelled, and every error reply has code
\* INVALID_REQUEST or UNAVAILABLE.
C21_ReasonsInSpecSet ==
  /\ \A i \in 1..Len(events) :
       events[i].name = "exec.denied" =>
         events[i].reason \in {"security=deny", "allowlist-miss", "approval-required",
                               "permission:screenRecording", "companion-unavailable",
                               "cancelled"}
  /\ \A r \in AllReplies : ~r.ok => r.code \in {"INVALID_REQUEST", "UNAVAILABLE"}

\* C21 as amended: an exec.denied event sent by the handler's own branches has
\* a reason among security=deny, allowlist-miss, approval-required,
\* permission:screenRecording and companion-unavailable (cancelled is never
\* sent); on the macOS exec-host error branch the reason is the one the exec
\* host reports, whatever it is, and approval-required when it reports none;
\* every error reply has code INVALID_REQUEST or UNAVAILABLE.
C21_ReasonsLocalOrFromHost ==
  LET hostError == IsSome(execHost.response) /\ ~Get(execHost.response).ok
  IN /\ \A i \in 1..Len(events) :
          events[i].name = "exec.denied" =>
            IF hostError
            THEN events[i].reason =
                   IF IsSome(Get(execHost.response).reason)
                   THEN Get(Get(execHost.response).reason)
                   ELSE "approval-required"
            ELSE events[i].reason \in
                   {"security=deny", "allowlist-miss", "approval-required",
                    "permission:screenRecording", "companion-unavailable"}
     /\ \A r \in AllReplies : ~r.ok => r.code \in {"INVALID_REQUEST", "UNAVAILABLE"}

\* the exec host refuses with a reason of its own, which is sent as it is
C21_Witness_HostReasonForwarded ==
  /\ Done
  /\ platform = "darwin"
  /\ IsSome(execHost.response)
  /\ Get(execHost.response).reason = Some("user-denied")
  /\ events = <<Event("exec.denied", "user-denied")>>
  /\ replies = <<Reply(FALSE, "UNAVAILABLE")>>


\* the executor's result a finished local run started from (exit codes differ)
OriginalOf(r) == CHOOSE o \in RunResults : o.exitCode = r.exitCode

Suffixed(chunks) == Append(chunks, "... (truncated)")

\* a local run whose exec.finished event was sent
LocalFinished ==
  /\ pc \in {"reply", "done"}
  /\ runCalls # << >>
  /\ Len(finishedEvents) = 1
  /\ IsSome(finishedEvents[1])

\* C22 as stated: a truncated result gets the suffix on stderr when stderr is
\* not empty, otherwise on stdout and only when stdout is not empty; a result
\* that is not truncated keeps both streams; the exec.finished event and the
\* reply payload carry the same text.
C22_SuffixOnNonEmptyStream ==
  LocalFinished =>
    LET e == Get(finishedEvents[1])
        o == OriginalOf(e)
    IN /\ \A m \in AllReplies :
            IsSome(m.payload) =>
              /\ Get(m.payload).stdout = e.stdout
              /\ Get(m.payload).stderr = e.stderr
       /\ ~o.truncated => (e.stdout = o.stdout /\ e.stderr = o.stderr)
       /\ (o.truncated /\ o.stderr # << >>) =>
            (e.stderr = Suffixed(o.stderr) /\ e.stdout = o.stdout)
       /\ (o.truncated /\ o.stderr = << >>) =>
            /\ e.stderr = o.stderr
            /\ e.stdout = IF o.stdout # << >> THEN Suffixed(o.stdout) ELSE o.stdout

\* C22: a truncated result gets the suffix on exactly one stream: on stderr
\* when stderr has text other than white space, otherwise on stdout, empty or
\* not; a result that is not truncated keeps both streams; the exec.finished
\* event and the reply payload carry the same text.
C22_SuffixOnTrimmedStderrElseStdout ==
  LocalFinished =>
    LET e == Get(finishedEvents[1])
        o == OriginalOf(e)
    IN /\ \A m \in AllReplies :
            IsSome(m.payload) =>
              /\ Get(m.payload).stdout = e.stdout
              /\ Get(m.payload).stderr = e.stderr
       /\ AllReplies # {}
       /\ ~o.truncated => (e.stdout = o.stdout /\ e.stderr = o.stderr)
       /\ (o.truncated /\ HasText(o.stderr)) =>
            (e.stderr = Suffixed(o.stderr) /\ e.stdout = o.stdout)
       /\ (o.truncated /\ ~HasText(o.stderr)) =>
            (e.stdout = Suffixed(o.stdout) /\ e.stderr = o.stderr)

\* stderr holds only white space and stdout is empty: the suffix is on stdout
C22_Witness_SuffixOnEmptyStdout ==
  /\ Done
  /\ LocalFinished
  /\ Get(finishedEvents[1]).stderr = <<" ">>
  /\ Get(finishedEvents[1]).stdout = <<"... (truncated)">>
  /\ Get(replies[1].payload).stdout = <<"... (truncated)">>


(***************************************************************************)
(* Overlapping invocations of handleSystemRunInvoke on one sessionKey.     *)
(* An invocation runs without interruption from one await to the next;     *)
(* another invocation can run only while this one is parked at an await.   *)
(***************************************************************************)
\* the single-invocation state stays idle
HandlerIdle ==
  /\ SystemRunIdle
  /\ pc = "idle"
  /\ params = [command |-> << >>, rawCommand |-> None, approved |-> FALSE,
               approvalDecision |-> "null", needsScreenRecording |-> FALSE]
  /\ fwd = NoFwd

handlerVars ==
  <<pc, reqVars, command, evalVars, allowlistFile, execHost, result, outVars,
    fwd, prior, finishedEvents>>

\* the place of invocation i in a sequence of invocations (0: not there)
Pos(seq, i) ==
  IF \E k \in 1..Len(seq) : seq[k] = i
  THEN CHOOSE k \in 1..Len(seq) : seq[k] = i
  ELSE 0

\* the event put where the start order of its invocation places it
EmitEventInStartOrder(i, name) ==
  LET Earlier(e) == Pos(started, e.inv) < Pos(started, i)
      Later(e) == ~Earlier(e)
  IN sink' = IF Pos(started, i) = 0
             THEN Append(sink, [inv |-> i, name |-> name])
             ELSE SelectSeq(sink, Earlier) \o <<[inv |-> i, name |-> name]>>
                    \o SelectSeq(sink, Later)

\* sendNodeEvent / sendExecFinishedEvent is called: the sink gets the event
EmitEvent(i, name) == sink' = Append(sink, [inv |-> i, name |-> name])

\* the decision is reached or the result is in, and the event goes out in the
\* same uninterrupted run
CompleteWith(i, name) ==
  /\ completions' = Append(completions, i)
  /\ EmitEvent(i, name)
  /\ invPc' = [invPc EXCEPT ![i] = "event"]

\* lines 262-593 up to the first await: an invalid request is answered with no
\* event, darwin asks the exec host, a denial sends its event, an allowed
\* command is given to runCommand
Call(i) ==
  /\ invPc[i] = "idle"
  /\ started' = Append(started, i)
  /\ \E branch \in {"invalid", "host", "deny", "run"} :
       CASE branch = "invalid" ->
              /\ invPc' = [invPc EXCEPT ![i] = "reply"]
              /\ UNCHANGED <<completions, sink>>
         [] branch = "host" ->
              /\ invPc' = [invPc EXCEPT ![i] = "host"]
              /\ UNCHANGED <<completions, sink>>
         [] branch = "deny" -> CompleteWith(i, "exec.denied")
         [] branch = "run" ->
              /\ invPc' = [invPc EXCEPT ![i] = "run"]
              /\ UNCHANGED <<completions, sink>>
  /\ UNCHANGED <<handlerVars, cancelled, toolVars, i18nVars>>

\* lines 407-593: the exec host answered; its refusal or its result ends the
\* invocation, no answer with fallback allowed goes on to the local decision
HostReturns(i) ==
  /\ invPc[i] = "host"
  /\ \E branch \in {"denied", "finished", "fallbackDeny", "fallbackRun"} :
       CASE branch = "denied" -> CompleteWith(i, "exec.denied")
         [] branch = "finished" -> CompleteWith(i, "exec.finished")
         [] branch = "fallbackDeny" -> CompleteWith(i, "exec.denied")
         [] branch = "fallbackRun" ->
              /\ invPc' = [invPc EXCEPT ![i] = "run"]
              /\ UNCHANGED <<completions, sink>>
  /\ UNCHANGED <<started, handlerVars, cancelled, toolVars, i18nVars>>

\* lines 588-602: runCommand returned, exec.finished is sent with no await
\* in between
RunCommandReturns(i) ==
  /\ invPc[i] = "run"
  /\ CompleteWith(i, "exec.finished")
  /\ UNCHANGED <<started, handlerVars, cancelled, toolVars, i18nVars>>

\* the awaited event call returned: sendInvokeResult is called
EventSent(i) ==
  /\ invPc[i] = "event"
  /\ invPc' = [invPc EXCEPT ![i] = "reply"]
  /\ UNCHANGED <<started, completions, sink, handlerVars, cancelled, toolVars, i18nVars>>

\* the awaited sendInvokeResult returned: the handler returns
ReplySent(i) ==
  /\ invPc[i] = "reply"
  /\ invPc' = [invPc EXCEPT ![i] = "done"]
  /\ UNCHANGED <<started, completions, sink, handlerVars, cancelled, toolVars, i18nVars>>

InitConc ==
  /\ HandlerIdle
  /\ AuxIdle

NextConc ==
  \E i \in Invocations :
    \/ Call(i)
    \/ HostReturns(i)
    \/ RunCommandReturns(i)
    \/ EventSent(i)
    \/ ReplySent(i)

SpecConc == InitConc /\ [][NextConc]_vars

InitCancel == InitFaults

\* the caller cancels while the handler is at the exec host call (407) or at
\* the runCommand call (588); nothing of the handler's state changes
Cancel ==
  /\ pc \in {"exechost", "run"}
  /\ ~cancelled
  /\ cancelled' = TRUE
  /\ UNCHANGED <<pc, reqVars, command, evalVars, allowlistFile, execHost,
                 result, outVars, fwd, prior, finishedEvents, concVars,
                 toolVars, i18nVars>>

NextCancel ==
  \/ Next
  \/ Cancel

SpecCancel == InitCancel /\ [][NextCancel]_vars

\* C24: an invocation cancelled while it awaited the exec host or the
\* executor ends with the single event exec.denied, reason cancelled, and
\* with no exec.finished event.
C24_CancelledIsDenied ==
  (Done /\ cancelled) => events = <<Event("exec.denied", "cancelled")>>


\* approved=true with no valid approvalDecision
ApprovedFlagOnly ==
  params.approved /\ params.approvalDecision \notin {"allow-once", "allow-always"}

\* no valid approvalDecision and no approved=true
NotPreApproved ==
  ~params.approved /\ params.approvalDecision \notin {"allow-once", "allow-always"}

\* C25: a request with approved=true and no valid approvalDecision is treated
\* as pre-approved like one with allow-once: it never ends in exec.denied with
\* reason approval-required or allowlist-miss and never inserts an allowlist
\* entry; a request with neither approved=true nor a valid decision (the
\* decision "deny" included) has no pre-approval: when approval is required
\* or the allowlist is not satisfied it is never given to runCommand.
C25_ApprovedFlagIsPreApproval ==
  /\ (Accepted /\ (ApprovedFlagOnly \/ params.approvalDecision = "allow-once")) =>
       /\ \A i \in 1..Len(events) :
            events[i].reason \notin {"approval-required", "allowlist-miss"}
       /\ Count("addAllowlistEntry") = 0
  /\ (/\ Accepted
      /\ NotPreApproved
      /\ pc \notin {"start", "evaluate"}
      /\ security # "deny"
      /\ \/ requiresExecApproval(ask, security, analysisOk, allowlistSatisfied)
         \/ security = "allowlist" /\ (~analysisOk \/ ~allowlistSatisfied)) =>
       runCalls = << >>

\* the same, for invocations the handler decides itself
C25_LocalDecision ==
  LocalPath => C25_ApprovedFlagIsPreApproval


\* C26: at every point of the handler allowlistSatisfied implies
\* security=allowlist and analysisOk, so the allowlist-miss condition
\* (not analysisOk or not allowlistSatisfied) says the same as
\* not allowlistSatisfied.
C26_SatisfiedImpliesAllowlistAndOk ==
  /\ allowlistSatisfied => (security = "allowlist" /\ analysisOk)
  /\ (~analysisOk \/ ~allowlistSatisfied) <=> ~allowlistSatisfied

\* past the evaluation with the allowlist satisfied
C26_Witness_SatisfiedAtDecision ==
  /\ pc = "approval"
  /\ allowlistSatisfied
  /\ security = "allowlist"
  /\ analysisOk
  /\ allowlistMatches # << >>


\* the places of effect e in the trace
Places(e) == {i \in 1..Len(trace) : trace[i] = e}

\* C27: an exec.* event is sent before the reply and none after it; when
\* runCommand is called, the allowlist insertions and use records come before
\* the call, the call before exec.finished, and exec.finished before the reply.
C27_EventBeforeReply ==
  /\ \A i \in Places("exec.denied") \cup Places("exec.finished") :
       \A j \in Places("reply") : i < j
  /\ \A i \in Places("addAllowlistEntry") \cup Places("recordAllowlistUse") :
       \A j \in Places("runCommand") \cup Places("exec.finished")
                 \cup Places("exec.denied") \cup Places("reply") : i < j
  /\ \A i \in Places("runCommand") :
       /\ \A j \in Places("exec.finished") \cup Places("reply") : i < j
       /\ Places("exec.denied") = {}
  /\ (Done /\ runCalls # << >>) =>
       /\ Cardinality(Places("runCommand")) = 1
       /\ Cardinality(Places("exec.finished")) = 1
       /\ trace[Len(trace) - 1] = "exec.finished"
       /\ trace[Len(trace)] = "reply"

\* an allowed invocation that inserted an entry first
C27_Witness_AllowPathInOrder ==
  /\ Done
  /\ trace = <<"addAllowlistEntry", "runCommand", "exec.finished", "reply">>


(***************************************************************************)
(* Tool names and tool groups (tool-policy.ts 8-110).  A name is a         *)
(* sequence of characters.                                                 *)
(***************************************************************************)
T_group_memory == <<"g", "r", "o", "u", "p", ":", "m", "e", "m", "o", "r", "y">>
T_memory_search == <<"m", "e", "m", "o", "r", "y", "_", "s", "e", "a", "r", "c", "h">>
T_memory_get == <<"m", "e", "m", "o", "r", "y", "_", "g", "e", "t">>
T_group_web == <<"g", "r", "o", "u", "p", ":", "w", "e", "b">>
T_web_search == <<"w", "e", "b", "_", "s", "e", "a", "r", "c", "h">>
T_web_fetch == <<"w", "e", "b", "_", "f", "e", "t", "c", "h">>
T_group_fs == <<"g", "r", "o", "u", "p", ":", "f", "s">>
T_read == <<"r", "e", "a", "d">>
T_write == <<"w", "r", "i", "t", "e">>
T_edit == <<"e", "d", "i", "t">>
T_apply_patch == <<"a", "p", "p", "l", "y", "_", "p", "a", "t", "c", "h">>
T_group_runtime == <<"g", "r", "o", "u", "p", ":", "r", "u", "n", "t", "i", "m", "e">>
T_exec == <<"e", "x", "e", "c">>
T_bash == <<"b", "a", "s", "h">>
T_process == <<"p", "r", "o", "c", "e", "s", "s">>
T_group_sessions == <<"g", "r", "o", "u", "p", ":", "s", "e", "s", "s", "i", "o", "n", "s">>
T_sessions_list == <<"s", "e", "s", "s", "i", "o", "n", "s", "_", "l", "i", "s", "t">>
T_sessions_history == <<"s", "e", "s", "s", "i", "o", "n", "s", "_", "h", "i", "s", "t", "o", "r", "y">>
T_sessions_send == <<"s", "e", "s", "s", "i", "o", "n", "s", "_", "s", "e", "n", "d">>
T_sessions_spawn == <<"s", "e", "s", "s", "i", "o", "n", "s", "_", "s", "p", "a", "w", "n">>
T_session_status == <<"s", "e", "s", "s", "i", "o", "n", "_", "s", "t", "a", "t", "u", "s">>
T_group_ui == <<"g", "r", "o", "u", "p", ":", "u", "i">>
T_browser == <<"b", "r", "o", "w", "s", "e", "r">>
T_canvas == <<"c", "a", "n", "v", "a", "s">>
T_group_automation == <<"g", "r", "o", "u", "p", ":", "a", "u", "t", "o", "m", "a", "t", "i", "o", "n">>
T_cron == <<"c", "r", "o", "n">>
T_gateway == <<"g", "a", "t", "e", "w", "a", "y">>
T_group_messaging == <<"g", "r", "o", "u", "p", ":", "m", "e", "s", "s", "a", "g", "i", "n", "g">>
T_message == <<"m", "e", "s", "s", "a", "g", "e">>
T_group_nodes == <<"g", "r", "o", "u", "p", ":", "n", "o", "d", "e", "s">>
T_nodes == <<"n", "o", "d", "e", "s">>
T_group_clawdbot == <<"g", "r", "o", "u", "p", ":", "c", "l", "a", "w", "d", "b", "o", "t">>
T_agents_list == <<"a", "g", "e", "n", "t", "s", "_", "l", "i", "s", "t">>
T_image == <<"i", "m", "a", "g", "e">>
T_apply_dash_patch == <<"a", "p", "p", "l", "y", "-", "p", "a", "t", "c", "h">>

\* lines 8-11
TOOL_NAME_ALIASES ==
  [name \in {T_bash, T_apply_dash_patch} |->
     IF name = T_bash THEN T_exec ELSE T_apply_patch]

\* lines 13-57
TOOL_GROUPS ==
  [name \in {T_group_memory, T_group_web, T_group_fs, T_group_runtime, T_group_sessions, T_group_ui, T_group_automation, T_group_messaging, T_group_nodes, T_group_clawdbot} |->
     CASE name = T_group_memory ->
            <<T_memory_search, T_memory_get>>
       [] name = T_group_web ->
            <<T_web_search, T_web_fetch>>
       [] name = T_group_fs ->
            <<T_read, T_write, T_edit, T_apply_patch>>
       [] name = T_group_runtime ->
            <<T_exec, T_bash, T_process>>
       [] name = T_group_sessions ->
            <<T_sessions_list, T_sessions_history, T_sessions_send, T_sessions_spawn, T_session_status>>
       [] name = T_group_ui ->
            <<T_browser, T_canvas>>
       [] name = T_group_automation ->
            <<T_cron, T_gateway>>
       [] name = T_group_messaging ->
            <<T_message>>
       [] name = T_group_nodes ->
            <<T_nodes>>
       [] name = T_group_clawdbot ->
            <<T_browser, T_canvas, T_nodes, T_cron, T_message, T_gateway, T_agents_list, T_sessions_list, T_sessions_history, T_sessions_send, T_sessions_spawn, T_session_status, T_memory_search, T_memory_get, T_web_search, T_web_fetch, T_image>>]

\* String.prototype.trim
RECURSIVE TrimStart(_)
TrimStart(s) ==
  IF Len(s) > 0 /\ s[1] = SP THEN TrimStart(Tail(s)) ELSE s

RECURSIVE TrimEnd(_)
TrimEnd(s) ==
  IF Len(s) > 0 /\ s[Len(s)] = SP THEN TrimEnd(SubSeq(s, 1, Len(s) - 1)) ELSE s

Trim(s) == TrimEnd(TrimStart(s))

\* lines 78-81
normalizeToolName(name) ==
  LET normalized == ToLower(Trim(name))
  IN IF normalized \in DOMAIN TOOL_NAME_ALIASES
     THEN TOOL_NAME_ALIASES[normalized]
     ELSE normalized

\* lines 83-86: map(normalizeToolName).filter(Boolean)
RECURSIVE normalizeToolList(_)
normalizeToolList(list) ==
  IF Len(list) = 0 THEN << >>
  ELSE LET n == normalizeToolName(list[1])
       IN (IF Len(n) > 0 THEN <<n>> ELSE << >>) \o normalizeToolList(Tail(list))

\* lines 100-108: a group name gives its members, another name itself
RECURSIVE ExpandEach(_)
ExpandEach(normalized) ==
  IF Len(normalized) = 0 THEN << >>
  ELSE (IF normalized[1] \in DOMAIN TOOL_GROUPS
        THEN TOOL_GROUPS[normalized[1]]
        ELSE <<normalized[1]>>) \o ExpandEach(Tail(normalized))

\* Array.from(new Set(xs)): the first occurrence of each element, in order
RECURSIVE Unique(_)
Unique(xs) ==
  IF Len(xs) = 0 THEN << >>
  ELSE LET rest == Unique(SubSeq(xs, 1, Len(xs) - 1))
           last == xs[Len(xs)]
       IN IF \E i \in 1..Len(rest) : rest[i] = last THEN rest ELSE Append(rest, last)

\* lines 98-110
expandToolGroups(list) == Unique(ExpandEach(normalizeToolList(list)))


\* names as a caller may write them
T_Bash == <<"B", "a", "s", "h">>
T_exec_spaced == <<SP, "e", "x", "e", "c", SP>>
T_GROUP_FS == <<"G", "R", "O", "U", "P", ":", "F", "S">>
T_custom == <<"m", "y", "_", "t", "o", "o", "l">>

RawToolNames ==
  {T_group_runtime, T_group_fs, T_group_memory, T_GROUP_FS, T_exec, T_bash,
   T_Bash, T_exec_spaced, T_apply_dash_patch, T_read, T_custom, <<SP>>}

MaxToolListLen == 2

ToolLists ==
  UNION {[1..n -> RawToolNames] : n \in 0..MaxToolListLen}


InitTools ==
  /\ HandlerIdle
  /\ ConcIdle
  /\ cancelled = FALSE
  /\ I18nIdle
  /\ toolList \in ToolLists
  /\ expanded = None
  /\ reexpanded = None

\* expandToolGroups(list), then expandToolGroups of what it returned
ExpandToolGroups ==
  /\ expanded = None
  /\ expanded' = Some(expandToolGroups(toolList))
  /\ reexpanded' = Some(expandToolGroups(Get(expanded')))
  /\ UNCHANGED <<toolList, handlerVars, concVars, cancelled, i18nVars>>

NextTools == ExpandToolGroups

SpecTools == InitTools /\ [][NextTools]_vars

\* C28: every name expandToolGroups returns is canonical (normalizeToolName
\* leaves it as it is), no name is returned twice, and expanding the result
\* again gives the same result.
C28_CanonicalAndIdempotent ==
  IsSome(expanded) =>
    LET out == Get(expanded)
    IN /\ \A i \in 1..Len(out) : normalizeToolName(out[i]) = out[i]
       /\ \A i, j \in 1..Len(out) : out[i] = out[j] => i = j
       /\ reexpanded = expanded

\* the same for lists that expand to no member of group:runtime
C28_WithoutRuntimeGroup ==
  (IsSome(expanded) /\ \A i \in 1..Len(toolList) :
      normalizeToolName(toolList[i]) # T_group_runtime) =>
    C28_CanonicalAndIdempotent


(***************************************************************************)
(* I18nManager (ui/src/i18n/lib/translate.ts).  The language selector      *)
(* fires setLocale without awaiting it, so calls may overlap: a call       *)
(* parked at its import() resumes after later calls have run.              *)
(***************************************************************************)
\* line 17
SupportedLocales == {"en", "zh-CN", "zh-TW", "pt-BR"}
\* lines 44-49: the locales setLocale can import
LoadableLocales == {"zh-CN", "zh-TW", "pt-BR"}
\* the locales a caller asks for: the supported ones and another one
RequestedLocales == SupportedLocales \cup {"fr"}
\* navigator.language
NavigatorLanguages == {"en-US", "zh-HK", "pt-PT"}
SavedLocales == {None, Some("zh-CN"), Some("fr")}
SubscriberLists == {<< >>, <<"s1">>, <<"s1", "s2">>}

\* navLang.startsWith(prefix), for the languages drawn
StartsWith(navLang, prefix) ==
  \/ prefix = "zh" /\ navLang \in {"zh-CN", "zh-TW", "zh-HK"}
  \/ prefix = "pt" /\ navLang \in {"pt-PT", "pt-BR"}

\* lines 15-29
loadLocale(saved, navLang) ==
  IF IsSome(saved) /\ Get(saved) \in SupportedLocales
  THEN Get(saved)
  ELSE IF StartsWith(navLang, "zh")
       THEN (IF navLang \in {"zh-TW", "zh-HK"} THEN "zh-TW" ELSE "zh-CN")
       ELSE IF StartsWith(navLang, "pt") THEN "pt-BR" ELSE "en"

\* lines 74-76: every subscriber is called with the locale
notify(l) ==
  notified' = notified \o [i \in 1..Len(subscribers) |->
                             [sub |-> subscribers[i], locale |-> l]]

\* lines 60-62
Commit(l) ==
  /\ locale' = l
  /\ storage' = Some(l)
  /\ notify(l)

Returned(c, l, outcome) ==
  calls' = [calls EXCEPT ![c] = [pc |-> "returned", locale |-> l,
                                 outcome |-> outcome]]

\* lines 35-63 up to the await of import(), or to the end when nothing is
\* imported; the calls are numbered in the order they are made
SetLocale(c, l) ==
  /\ calls[c].pc = "idle"
  /\ c > 1 => calls[c - 1].pc # "idle"
  /\ IF locale = l
     THEN /\ Returned(c, l, "same")
          /\ UNCHANGED <<locale, storage, translations, notified>>
     ELSE IF l \notin translations
          THEN IF l \in LoadableLocales
               THEN /\ calls' = [calls EXCEPT ![c] = [pc |-> "loading", locale |-> l,
                                                      outcome |-> "none"]]
                    /\ UNCHANGED <<locale, storage, translations, notified>>
               ELSE /\ Returned(c, l, "unknown")
                    /\ UNCHANGED <<locale, storage, translations, notified>>
          ELSE /\ Commit(l)
               /\ Returned(c, l, "set")
               /\ UNCHANGED translations
  /\ UNCHANGED <<subscribers, handlerVars, concVars, cancelled, toolVars>>

\* lines 54-57, the locale set although the import failed
ImportRejectsSetsLocale(c) ==
  /\ calls[c].pc = "loading"
  /\ Commit(calls[c].locale)
  /\ Returned(c, calls[c].locale, "failed")
  /\ UNCHANGED <<translations, subscribers, handlerVars, concVars, cancelled,
                 toolVars>>

\* lines 54-57: the import failed
ImportRejects(c) ==
  /\ calls[c].pc = "loading"
  /\ Returned(c, calls[c].locale, "failed")
  /\ UNCHANGED <<locale, storage, translations, notified, subscribers,
                 handlerVars, concVars, cancelled, toolVars>>

\* lines 53, 60-62: the import is in, the call goes on to the end
ImportResolves(c) ==
  /\ calls[c].pc = "loading"
  /\ translations' = translations \cup {calls[c].locale}
  /\ Commit(calls[c].locale)
  /\ Returned(c, calls[c].locale, "set")
  /\ UNCHANGED <<subscribers, handlerVars, concVars, cancelled, toolVars>>

\* lines 65-67
registerTranslation(l) ==
  /\ l \notin translations
  /\ translations' = translations \cup {l}
  /\ UNCHANGED <<locale, storage, subscribers, notified, calls, handlerVars,
                 concVars, cancelled, toolVars>>

\* lines 7-13: the constructor
InitI18n ==
  /\ HandlerIdle
  /\ ConcIdle
  /\ cancelled = FALSE
  /\ ToolsIdle
  /\ storage \in SavedLocales
  /\ \E navLang \in NavigatorLanguages : locale = loadLocale(storage, navLang)
  /\ translations = {"en"}
  /\ subscribers \in SubscriberLists
  /\ notified = << >>
  /\ calls = [c \in LocaleCalls |-> NoCall]

NextI18n ==
  \/ \E c \in LocaleCalls, l \in RequestedLocales : SetLocale(c, l)
  \/ \E c \in LocaleCalls : ImportRejects(c)
  \/ \E c \in LocaleCalls : ImportResolves(c)
  \/ registerTranslation("fr")

SpecI18n == InitI18n /\ [][NextI18n]_vars

\* the step leaves the locale, the stored locale, the translations and the
\* subscribers' calls as they were
NothingChanged ==
  /\ locale' = locale
  /\ storage' = storage
  /\ translations' = translations
  /\ notified' = notified

\* the step sets and stores locale l and calls every subscriber once with it
SetAndNotified(l) ==
  /\ locale' = l
  /\ storage' = Some(l)
  /\ Len(notified') = Len(notified) + Len(subscribers)
  /\ SubSeq(notified', 1, Len(notified)) = notified
  /\ \A i \in 1..Len(subscribers) :
       /\ notified'[Len(notified) + i].locale = l
       /\ Cardinality({k \in (Len(notified) + 1)..Len(notified') :
                         notified'[k].sub = subscribers[i]}) = 1

\* what a step of call c does, given what was asked and how the import went
SetLocaleStep(c) ==
  LET l == calls'[c].locale
  IN /\ (calls[c].pc = "idle" /\ calls'[c].pc # "idle") =>
          IF l = locale \/ l \notin translations
          THEN NothingChanged
          ELSE SetAndNotified(l) /\ translations' = translations
     /\ (calls[c].pc = "idle" /\ calls'[c].pc = "loading") =>
          l \in LoadableLocales
     /\ (calls[c].pc = "loading" /\ calls'[c].pc = "returned") =>
          IF calls'[c].outcome = "failed"
          THEN NothingChanged
          ELSE SetAndNotified(l) /\ translations' = translations \cup {l}

\* C29: a setLocale call changes nothing when the locale asked for is the
\* current one, when it has no translations and cannot be imported, and when
\* its import fails; when it succeeds the locale is set and stored and every
\* subscriber is called exactly once with the new locale.
C29_SetLocaleOnlyOnSuccess ==
  [][\A c \in LocaleCalls : SetLocaleStep(c)]_vars

\* one call failed to import and left everything alone, another set the locale
C29_Witness_FailedThenSet ==
  /\ calls[1].outcome = "failed"
  /\ calls[2].outcome = "set"
  /\ subscribers = <<"s1", "s2">>
  /\ locale = calls[2].locale
  /\ storage = Some(calls[2].locale)
  /\ notified = <<[sub |-> "s1", locale |-> calls[2].locale],
                  [sub |-> "s2", locale |-> calls[2].locale]>>

\* every call returned
AllSettled == \A c \in LocaleCalls : calls[c].pc = "returned"

\* the calls that set the locale
Succeeded == {c \in LocaleCalls : calls[c].outcome = "set"}

\* C30: once all overlapping setLocale calls have returned, the locale and
\* the stored locale are the one asked for by the latest call that succeeded.
C30_LatestCallWins ==
  (AllSettled /\ Succeeded # {}) =>
    LET latest == CHOOSE c \in Succeeded : \A d \in Succeeded : d <= c
    IN /\ locale = calls[latest].locale
       /\ storage = Some(calls[latest].locale)

=============================================================================
